---- MODULE Spec2Model ----
(***************************************************************************)
(* The /hackrx/run pipeline of the three server programs of the           *)
(* repository: src/src/app.py (FastAPI, handler without await points),     *)
(* src/src/new_app.py (FastAPI, asynchronous handler, worker threads) and  *)
(* src/src/web_app.py (Flask, one thread per request).  A run of the model *)
(* is one process running one of the three programs (variable impl).       *)
(***************************************************************************)
EXTENDS Integers, Sequences, FiniteSets, TLC

(***************************************************************************)
(* Program constants.                                                      *)
(***************************************************************************)
MAX_CACHE_SIZE == 10
CACHE_TTL == 3600
App_MAX_CACHE_SIZE == 5
max_requests == 20
window_seconds == 60
RATE_LIMIT_REQUESTS == 10
RATE_LIMIT_WINDOW == 60
Web_RATE_LIMIT_REQUESTS == 10
Web_RATE_LIMIT_WINDOW == 60
SEMAPHORE_LIMIT == 4
THREAD_POOL_WORKERS == 4
NA_K == 3
App_K == 2
NA_CHUNK_CUT == 400
App_CHUNK_CUT == 500
MAX_PROMPT_TOKENS == 8000
NA_MAX_CHUNK == 500
NA_MIN_CHUNK == 80
App_MAX_CHUNK == 600
App_MIN_CHUNK == 100
SHORT_CHUNK == 300
\* the characters, words and punctuation marks of the two prompt templates
\* around the question and the chunks
NA_FULL_CHARS == 1309
NA_FULL_WORDS == 192
App_FULL_CHARS == 792
App_FULL_WORDS == 118
App_FULL_PUNCT == 39
SHORT_CHARS == 266
SHORT_WORDS == 32
SHORT_PUNCT == 17

(***************************************************************************)
(* Bounds of the model.                                                    *)
(***************************************************************************)
MaxReqs == 3
MaxCacheTicks == 2
MaxRateTicks == 2
MaxQuestions == 5
MaxOther == 1
MaxAsked == 1
MaxText == 3
MaxHeader == 3
MaxChunks == 4
MaxParagraphs == 2
MaxPieces == 4
MaxCalls == 5
MaxSections == 6
MaxSentences == 2

Impls == {"app", "new_app", "web_app"}
Clients == {"c0", "c1"}
Slots == {1, 2}

VARIABLES
    impl,               \* the program this process runs
    now,                \* time.time()
    requests,           \* rate limiter: client ip -> list of admitted timestamps
    document_cache,     \* _document_cache, a dict in insertion order
    cache_timestamps,   \* _cache_timestamps (new_app.py), a dict in insertion order
    req,                \* the handler invocations in flight, by slot
    inserts,            \* new_app.py: cache_document calls handed to a thread, not yet run
    builds,             \* history: per URL, how often process_document was started
    served,             \* history: per URL, a 200 was returned and its entry not removed since
    nreq,               \* history: the requests client c1 has sent
    admitted,           \* history: per client, the times of its latest requests that passed the rate check
    rejected,           \* history: per client, its last request was answered 429
    call                \* the call of one function followed step by step, with its locals

vars == <<impl, now, requests, document_cache, cache_timestamps, req, inserts,
          builds, served, nreq, admitted, rejected, call>>

\* everything but the function call that is followed
server == <<impl, now, requests, document_cache, cache_timestamps, req, inserts,
            builds, served, nreq, admitted, rejected>>

hist == <<admitted, rejected>>

(***************************************************************************)
(* Ordered dictionaries: sequences of [key, val] in insertion order.       *)
(***************************************************************************)
Keys(d) == {d[i].key : i \in 1..Len(d)}

DictGet(d, k) == LET i == CHOOSE j \in 1..Len(d) : d[j].key = k IN d[i].val

DictSet(d, k, v) ==
    IF k \in Keys(d)
    THEN [i \in 1..Len(d) |-> IF d[i].key = k THEN [key |-> k, val |-> v] ELSE d[i]]
    ELSE Append(d, [key |-> k, val |-> v])

RECURSIVE SeqSum(_)
SeqSum(s) == IF s = <<>> THEN 0 ELSE Head(s) + SeqSum(Tail(s))

(***************************************************************************)
(* The cache key of a document URL.                                        *)
(***************************************************************************)
get_document_cache_key(url) == <<"md5", url>>

(***************************************************************************)
(* Rate limiter.                                                           *)
(***************************************************************************)
MaxRequests == CASE impl = "new_app" -> max_requests
                 [] impl = "app" -> RATE_LIMIT_REQUESTS
                 [] OTHER -> Web_RATE_LIMIT_REQUESTS

Window == CASE impl = "new_app" -> window_seconds
            [] impl = "app" -> RATE_LIMIT_WINDOW
            [] OTHER -> Web_RATE_LIMIT_WINDOW

InWindow(t, req_time) == t - req_time < Window

CleanOld(list, t) == SelectSeq(list, LAMBDA req_time : InWindow(t, req_time))

\* a length test that lets one request too many through
OverLimit_Late(list) == Len(list) > MaxRequests

OverLimit(list) == Len(list) >= MaxRequests

is_allowed(list, t) == ~OverLimit(CleanOld(list, t))

RecordRequest(list, t) ==
    IF OverLimit(CleanOld(list, t)) THEN CleanOld(list, t)
    ELSE Append(CleanOld(list, t), t)

(***************************************************************************)
(* Document cache.                                                         *)
(***************************************************************************)
MaxCache == IF impl = "app" THEN App_MAX_CACHE_SIZE ELSE MAX_CACHE_SIZE

NoDoc == [url |-> 0, build |-> 0]

\* a clean-up that also drops the entries of age exactly CACHE_TTL
Expired_AtTtl(current_time, timestamp) == current_time - timestamp >= CACHE_TTL

Expired(current_time, timestamp) == current_time - timestamp > CACHE_TTL

\* cleanup_expired_cache: the keys whose timestamp is older than the TTL
ExpiredKeys(current_time) ==
    {e.key : e \in {cache_timestamps[i] : i \in 1..Len(cache_timestamps)}
                \cap {x \in {cache_timestamps[i] : i \in 1..Len(cache_timestamps)} :
                         Expired(current_time, x.val)}}

PopKeys(d, ks) == SelectSeq(d, LAMBDA e : e.key \notin ks)

\* an eviction test that lets one entry too many in
AtCapacity_Late(d) == Len(d) > MaxCache

AtCapacity(d) == Len(d) >= MaxCache

\* an eviction that picks the newest entry: max in place of min
OldestByTimestamp_Newest(ts) ==
    LET i == CHOOSE j \in 1..Len(ts) : \A m \in 1..Len(ts) : ts[j].val >= ts[m].val
    IN ts[i].key

\* min(_cache_timestamps.keys(), key=_cache_timestamps.get): the first key, in
\* dictionary order, among those with the smallest timestamp
OldestByTimestamp(ts) ==
    LET i == CHOOSE j \in 1..Len(ts) :
                 /\ \A m \in 1..Len(ts) : ts[j].val <= ts[m].val
                 /\ \A m \in 1..(j - 1) : ts[m].val > ts[j].val
    IN ts[i].key

\* next(iter(_document_cache)): the first key in dictionary order
FirstInserted(d) == d[1].key

\* new_app.py cache_document, the section under _cache_lock.  With the cache at
\* capacity and no timestamp recorded, min() raises and nothing is stored.
NewAppCacheDocument(dc, ts, key, doc, t) ==
    IF AtCapacity(dc) /\ ts = <<>>
    THEN [dc |-> dc, ts |-> ts, evicted |-> {}]
    ELSE LET old == IF AtCapacity(dc) THEN {OldestByTimestamp(ts)} ELSE {}
         IN [dc |-> DictSet(PopKeys(dc, old), key, doc),
             ts |-> DictSet(PopKeys(ts, old), key, t),
             evicted |-> old \cap Keys(dc)]

\* app.py cache_document
AppCacheDocument(dc, key, doc) ==
    LET old == IF AtCapacity(dc) THEN {FirstInserted(dc)} ELSE {}
    IN [dc |-> DictSet(PopKeys(dc, old), key, doc), evicted |-> old]

(***************************************************************************)
(* Requests.                                                               *)
(***************************************************************************)
IdleReq == [pc |-> "idle", ip |-> "c0", url |-> 0, nq |-> 0, lookup_time |-> 0,
            hit |-> FALSE, doc |-> NoDoc, task |-> <<>>, answers |-> <<>>,
            status |-> 0, body |-> "none", snap |-> <<>>,
            \* history of the request
            servedBefore |-> FALSE, clean |-> TRUE, removed |-> {}, spawned |-> FALSE,
            seen |-> 0, due |-> FALSE, failed |-> {}, reordered |-> FALSE]

\* the response of a handler that returns before the document is looked up
Rejected(ip, code, body) == [IdleReq EXCEPT !.pc = "done", !.ip = ip, !.status = code, !.body = body]

\* a documents value is a string: empty, or a scheme followed by the rest
Url(u) == <<"http", u>>

\* documents.startswith(('http://', 'https://'))
IsUrl(documents) == documents[1] = "http"

UrlId(documents) == documents[2]

\* a slot takes a new request once the response of its last one has been sent
Free(rq) == rq.pc \in {"idle", "done"}

\* history: the entries of keys ks were removed from the cache
Unserve(ks) == [u \in DOMAIN served |-> served[u] /\ get_document_cache_key(u) \notin ks]

\* history: an in-flight request for one of the keys ks lost the entry it may
\* have counted on
Disturb(rq, ks) ==
    [s \in DOMAIN rq |->
        IF rq[s].pc \in {"lookup", "building", "answering"}
             /\ get_document_cache_key(rq[s].url) \in ks
        THEN [rq[s] EXCEPT !.clean = FALSE] ELSE rq[s]]

(***************************************************************************)
(* Answering one question.                                                 *)
(***************************************************************************)
Retrievals == {"ok", "raises"}
LLMOutputs == {"object", "fenced", "other_json", "not_json", "api_error"}

Raised == [kind |-> "raise", shape |-> "none", content |-> "none"]
Json(shape, content) == [kind |-> "json", shape |-> shape, content |-> content]

\* new_app.py generate_response: retrieval runs outside any try block; an API
\* failure and unparsable model text both come back as a justification object
generate_response(retrieval, llm) ==
    IF retrieval = "raises" THEN Raised
    ELSE CASE llm = "api_error" -> Json("object", "error")
           [] llm \in {"object", "fenced"} -> Json("object", "model")
           [] llm = "other_json" -> Json("other", "model")
           [] OTHER -> Json("object", "model")

NoAnswer == [q |-> 0, kind |-> "none"]
Answer(q, kind) == [q |-> q, kind |-> kind]

\* a process_question without its outer try/except: the exception reaches gather
process_question_Uncaught(q, response) ==
    IF response.kind = "raise" \/ response.shape # "object" THEN Answer(q, "raise")
    ELSE Answer(q, IF response.content = "model" THEN "content" ELSE "error")

\* new_app.py process_question: every exception becomes an error string
process_question(q, response) ==
    IF response.kind = "raise" THEN Answer(q, "error")
    ELSE IF response.shape # "object" THEN Answer(q, "error")
    ELSE Answer(q, IF response.content = "model" THEN "content" ELSE "error")

\* history: answering the question raised an exception somewhere between
\* retrieval and the parsing of the result
Failed(response) == response.kind = "raise" \/ response.shape # "object"

\* results collected in the order the tasks complete (as_completed)
GatherPut_AsCompleted(answers, i, a) ==
    LET j == CHOOSE m \in 1..Len(answers) :
                 answers[m] = NoAnswer /\ \A n \in 1..(m - 1) : answers[n] # NoAnswer
    IN [answers EXCEPT ![j] = a]

\* asyncio.gather: the result of the i-th awaitable is the i-th result
GatherPut(answers, i, a) == [answers EXCEPT ![i] = a]

\* hackrx_run: final_answers, where an exception object among the gathered
\* results becomes an error string
final_answers(answers) ==
    [i \in 1..Len(answers) |->
        IF answers[i].kind = "raise" THEN Answer(answers[i].q, "error") ELSE answers[i]]

Holding(rq) == Cardinality({i \in 1..Len(rq.task) : rq.task[i] \in {"queued", "running"}})

\* a semaphore created with one permit too many
SemaphoreFree_Extra(rq) == Holding(rq) <= SEMAPHORE_LIMIT

\* asyncio.Semaphore(4): a permit is free
SemaphoreFree(rq) == Holding(rq) < SEMAPHORE_LIMIT

Running == SeqSum([s \in 1..Cardinality(Slots) |->
               Cardinality({i \in 1..Len(req[s].task) : req[s].task[i] = "running"})])

\* a pool with one worker too many
WorkerFree_Extra == Running <= THREAD_POOL_WORKERS

\* ThreadPoolExecutor(max_workers=4): a worker is free
WorkerFree == Running < THREAD_POOL_WORKERS

(***************************************************************************)
(* History of the rate limiter's decisions, kept apart from its own lists. *)
(***************************************************************************)
\* the history keeps what is no older than two windows
Remember(h, t) == Append(SelectSeq(h, LAMBDA x : x > t - 2 * Window), t)

\* the client's admitted requests inside the window that ends at t
SeenInWindow(ip, t) ==
    Cardinality({i \in 1..Len(admitted[ip]) : admitted[ip][i] > t - Window})

Oldest(list) ==
    CHOOSE x \in {list[i] : i \in 1..Len(list)} :
        \A y \in {list[i] : i \in 1..Len(list)} : x <= y

\* the client is blocked and the window has elapsed since the oldest timestamp
\* recorded for it
Due(ip, t) ==
    /\ rejected[ip]
    /\ requests[ip] # <<>>
    /\ t - Oldest(requests[ip]) >= Window

\* the response of a handler that returns right after the rate check
Early(ip, code, body) ==
    [Rejected(ip, code, body) EXCEPT !.lookup_time = now,
                                     !.seen = SeenInWindow(ip, now),
                                     !.due = Due(ip, now)]

\* new_app.py: the event loop is not inside a handler's stretch between the
\* rate check and the cache lookup, which holds no await
LoopFree == \A s \in Slots : req[s].pc # "lookup"

(***************************************************************************)
(* new_app.py: /hackrx/run, handler up to its first await.                 *)
(***************************************************************************)
NA_Receive(r, ip, auth, documents, nq) ==
    /\ impl = "new_app"
    /\ Free(req[r])
    /\ LoopFree
    /\ requests' = [requests EXCEPT ![ip] = RecordRequest(@, now)]
    /\ admitted' = [admitted EXCEPT ![ip] =
                       IF is_allowed(requests[ip], now) THEN Remember(@, now) ELSE @]
    /\ rejected' = [rejected EXCEPT ![ip] = ~is_allowed(requests[ip], now)]
    /\ UNCHANGED <<impl, now, inserts, builds>>
    /\ IF ~is_allowed(requests[ip], now)
       THEN /\ req' = [req EXCEPT ![r] = Early(ip, 429, "detail")]
            /\ UNCHANGED <<document_cache, cache_timestamps, served>>
       ELSE IF auth # "good"
       THEN /\ req' = [req EXCEPT ![r] = Early(ip, 401, "error")]
            /\ UNCHANGED <<document_cache, cache_timestamps, served>>
       ELSE IF documents = <<>> \/ nq = 0 \/ ~IsUrl(documents)
       THEN /\ req' = [req EXCEPT ![r] = Early(ip, 400, "error")]
            /\ UNCHANGED <<document_cache, cache_timestamps, served>>
       ELSE \* get_cached_document: cleanup_expired_cache(), under _cache_lock
            LET ks == ExpiredKeys(now)
                gone == {[key |-> cache_timestamps[i].key, ts |-> cache_timestamps[i].val] :
                            i \in {j \in 1..Len(cache_timestamps) :
                                      cache_timestamps[j].key \in ks}}
            IN /\ document_cache' = PopKeys(document_cache, ks)
               /\ cache_timestamps' = PopKeys(cache_timestamps, ks)
               /\ served' = Unserve(ks)
               /\ req' = [Disturb(req, ks) EXCEPT ![r] =
                             [Early(ip, 0, "none") EXCEPT
                                 !.pc = "lookup", !.url = UrlId(documents), !.nq = nq,
                                 !.removed = gone]]

\* get_cached_document: _document_cache.get(cache_key), outside the lock; then
\* the hit branch, or the start of process_document in a thread
NA_CacheGet(r) ==
    /\ impl = "new_app"
    /\ req[r].pc = "lookup"
    /\ LET key == get_document_cache_key(req[r].url)
           found == key \in Keys(document_cache)
       IN /\ req' = [req EXCEPT ![r] =
                 IF found
                 THEN [@ EXCEPT !.pc = "answering", !.hit = TRUE,
                                !.doc = DictGet(document_cache, key),
                                !.servedBefore = served[req[r].url],
                                !.task = [i \in 1..req[r].nq |-> "waiting"],
                                !.answers = [i \in 1..req[r].nq |-> NoAnswer]]
                 ELSE [@ EXCEPT !.pc = "building", !.hit = FALSE,
                                !.servedBefore = served[req[r].url],
                                !.doc = [url |-> req[r].url, build |-> builds[req[r].url] + 1]]]
          /\ builds' = IF found THEN builds
                       ELSE [builds EXCEPT ![req[r].url] = @ + 1]
    /\ UNCHANGED <<impl, now, requests, document_cache, cache_timestamps, inserts, served,
                   hist>>

\* process_document returned: the cache_document task is created and the
\* questions are gathered
NA_BuildOk(r) ==
    /\ impl = "new_app"
    /\ req[r].pc = "building"
    /\ inserts' = inserts \cup {[url |-> req[r].url, doc |-> req[r].doc]}
    /\ req' = [req EXCEPT ![r] = [@ EXCEPT !.pc = "answering", !.spawned = TRUE,
                                     !.task = [i \in 1..req[r].nq |-> "waiting"],
                                     !.answers = [i \in 1..req[r].nq |-> NoAnswer]]]
    /\ UNCHANGED <<impl, now, requests, document_cache, cache_timestamps, builds, served,
                   hist>>

\* a handler that creates the cache_document task before it knows whether the
\* build succeeded
NA_BuildFail_Stores(r) ==
    /\ impl = "new_app"
    /\ req[r].pc = "building"
    /\ inserts' = inserts \cup {[url |-> req[r].url, doc |-> req[r].doc]}
    /\ req' = [req EXCEPT ![r] = [@ EXCEPT !.pc = "done", !.status = 500, !.body = "error",
                                           !.doc = NoDoc, !.spawned = TRUE]]
    /\ UNCHANGED <<impl, now, requests, document_cache, cache_timestamps, builds, served,
                   hist>>

\* process_document raised (download, file type, extraction, embedding)
NA_BuildFail(r) ==
    /\ impl = "new_app"
    /\ req[r].pc = "building"
    /\ req' = [req EXCEPT ![r] = [@ EXCEPT !.pc = "done", !.status = 500, !.body = "error",
                                           !.doc = NoDoc]]
    /\ UNCHANGED <<impl, now, requests, document_cache, cache_timestamps, inserts,
                   builds, served, hist>>

\* cache_document, run by a thread of the default executor
NA_CacheDocument(t) ==
    /\ impl = "new_app"
    /\ t \in inserts
    /\ LET key == get_document_cache_key(t.url)
           res == NewAppCacheDocument(document_cache, cache_timestamps, key, t.doc, now)
       IN /\ document_cache' = res.dc
          /\ cache_timestamps' = res.ts
          /\ served' = Unserve(res.evicted \ {key})
          /\ req' = Disturb(req, res.evicted \ {key})
    /\ inserts' = inserts \ {t}
    /\ UNCHANGED <<impl, now, requests, builds, hist>>

\* process_with_semaphore: "async with semaphore" is entered and
\* generate_response_async hands _sync_generate to THREAD_POOL
NA_Acquire(r, i) ==
    /\ impl = "new_app"
    /\ req[r].pc = "answering"
    /\ i \in 1..req[r].nq
    /\ req[r].task[i] = "waiting"
    /\ SemaphoreFree(req[r])
    /\ req' = [req EXCEPT ![r].task[i] = "queued"]
    /\ UNCHANGED <<impl, now, requests, document_cache, cache_timestamps, inserts,
                   builds, served, hist>>

\* a THREAD_POOL worker takes the queued call and runs generate_response
NA_Run(r, i) ==
    /\ impl = "new_app"
    /\ req[r].pc = "answering"
    /\ i \in 1..req[r].nq
    /\ req[r].task[i] = "queued"
    /\ WorkerFree
    /\ req' = [req EXCEPT ![r].task[i] = "running"]
    /\ UNCHANGED <<impl, now, requests, document_cache, cache_timestamps, inserts,
                   builds, served, hist>>

\* generate_response returns or raises; process_question turns the outcome into
\* its answer, the semaphore is released and gather stores the result
NA_Finish(r, i, retrieval, llm) ==
    /\ impl = "new_app"
    /\ req[r].pc = "answering"
    /\ i \in 1..req[r].nq
    /\ req[r].task[i] = "running"
    /\ req' = [req EXCEPT
                  ![r].task[i] = "done",
                  ![r].answers = GatherPut(@, i,
                      process_question(i, generate_response(retrieval, llm))),
                  ![r].failed = IF Failed(generate_response(retrieval, llm))
                                THEN @ \cup {i} ELSE @,
                  ![r].reordered = @ \/ \E j \in 1..(i - 1) : req[r].task[j] # "done"]
    /\ UNCHANGED <<impl, now, requests, document_cache, cache_timestamps, inserts,
                   builds, served, hist>>

\* gather returned: final_answers is built and the 200 response is sent
NA_Respond(r) ==
    /\ impl = "new_app"
    /\ req[r].pc = "answering"
    /\ \A i \in 1..req[r].nq : req[r].task[i] = "done"
    /\ req' = [req EXCEPT ![r] = [@ EXCEPT !.pc = "done", !.status = 200,
                                           !.body = "answers",
                                           !.answers = final_answers(@)]]
    /\ served' = [served EXCEPT ![req[r].url] = @ \/ req[r].clean]
    /\ UNCHANGED <<impl, now, requests, document_cache, cache_timestamps, inserts, builds,
                   hist>>

\* new_app.py: /clear-cache
NA_ClearCache(auth) ==
    /\ impl = "new_app"
    /\ LoopFree
    /\ IF auth # "good"
       THEN UNCHANGED <<document_cache, cache_timestamps, served, req>>
       ELSE /\ document_cache' = <<>>
            /\ cache_timestamps' = <<>>
            /\ served' = Unserve(Keys(document_cache))
            /\ req' = Disturb(req, Keys(document_cache))
    /\ UNCHANGED <<impl, now, requests, inserts, builds, hist>>

\* new_app.py: the response of /clear-cache
clear_cache_response(auth) ==
    IF auth # "good"
    THEN [status |-> 401, cache_size |-> <<>>, cache_entries |-> <<>>, cleared |-> <<>>]
    ELSE [status |-> 200, cache_size |-> <<0>>, cache_entries |-> <<>>,
          cleared |-> <<Len(document_cache)>>]

\* new_app.py: the response of /stats, which takes no header
get_stats_response ==
    [status |-> 200, cache_size |-> <<Len(document_cache)>>,
     cache_entries |-> <<[i \in 1..Len(cache_timestamps) |-> cache_timestamps[i].key]>>,
     cleared |-> <<>>]

\* new_app.py: /stats
NA_GetStats ==
    /\ impl = "new_app"
    /\ LoopFree
    /\ UNCHANGED <<impl, now, requests, document_cache, cache_timestamps, req, inserts,
                   builds, served, hist>>

\* time passes, by steps in which the stretch from the rate check to the
\* cache lookup takes no time
Tick(step, limit) ==
    /\ now + step <= limit
    /\ LoopFree
    /\ now' = now + step
    /\ UNCHANGED <<impl, requests, document_cache, cache_timestamps, req, inserts,
                   builds, served, hist>>

(***************************************************************************)
(* app.py: /hackrx/run.  The handler has no await: it runs from the rate   *)
(* check to its response without any other handler in between.             *)
(***************************************************************************)
\* app.py generate_response followed by the answer extraction of hackrx_run:
\* a retrieval exception leaves the loop, anything else yields an answer
AppAnswer(q, retrieval, llm) ==
    IF retrieval = "raises" THEN Answer(q, "raise")
    ELSE IF llm = "api_error" THEN Answer(q, "error")
    ELSE Answer(q, "content")

\* the question loop of app.py and web_app.py: answers.append(answer) question
\* after question, up to the first one whose answering raises
RECURSIVE AnswerLoop(_, _, _)
AnswerLoop(answers, i, outcome) ==
    IF i > Len(outcome) THEN answers
    ELSE IF AppAnswer(i, outcome[i][1], outcome[i][2]).kind = "raise"
    THEN Append(answers, AppAnswer(i, outcome[i][1], outcome[i][2]))
    ELSE AnswerLoop(Append(answers, AppAnswer(i, outcome[i][1], outcome[i][2])),
                    i + 1, outcome)

LoopRaised(answers) == answers # <<>> /\ answers[Len(answers)].kind = "raise"

\* how far the loop got, question by question
Reached(answers, nq) == [i \in 1..nq |-> IF i <= Len(answers) THEN "done" ELSE "waiting"]

App_hackrx_run(r, ip, auth, documents, nq, build, outcome) ==
    /\ impl = "app"
    /\ Free(req[r])
    /\ requests' = [requests EXCEPT ![ip] = RecordRequest(@, now)]
    /\ admitted' = [admitted EXCEPT ![ip] =
                       IF is_allowed(requests[ip], now) THEN Remember(@, now) ELSE @]
    /\ rejected' = [rejected EXCEPT ![ip] = ~is_allowed(requests[ip], now)]
    /\ UNCHANGED <<impl, now, inserts, cache_timestamps>>
    /\ IF ~is_allowed(requests[ip], now)
       THEN /\ req' = [req EXCEPT ![r] = Early(ip, 429, "detail")]
            /\ UNCHANGED <<document_cache, served, builds>>
       ELSE IF auth # "good"
       THEN /\ req' = [req EXCEPT ![r] = Early(ip, 401, "error")]
            /\ UNCHANGED <<document_cache, served, builds>>
       ELSE IF documents = <<>> \/ nq = 0 \/ ~IsUrl(documents)
       THEN /\ req' = [req EXCEPT ![r] = Early(ip, 400, "error")]
            /\ UNCHANGED <<document_cache, served, builds>>
       ELSE LET url == UrlId(documents)
                key == get_document_cache_key(url)
                found == key \in Keys(document_cache)
                doc == IF found THEN DictGet(document_cache, key)
                       ELSE [url |-> url, build |-> builds[url] + 1]
                base == [Early(ip, 0, "none") EXCEPT
                            !.url = url, !.nq = nq, !.hit = found, !.doc = doc,
                            !.servedBefore = served[url]]
                answers == AnswerLoop(<<>>, 1, outcome)
                stored == AppCacheDocument(document_cache, key, doc)
            IN /\ builds' = IF found THEN builds ELSE [builds EXCEPT ![url] = @ + 1]
               /\ IF ~found /\ build = "fails"
                  THEN /\ req' = [req EXCEPT ![r] =
                                     [base EXCEPT !.status = 500, !.body = "error",
                                                  !.doc = NoDoc]]
                       /\ UNCHANGED <<document_cache, served>>
                  ELSE /\ document_cache' = IF found THEN document_cache ELSE stored.dc
                       /\ IF LoopRaised(answers)
                          THEN /\ req' = [req EXCEPT ![r] =
                                    [base EXCEPT !.status = 500, !.body = "error",
                                                 !.spawned = ~found,
                                                 !.task = Reached(answers, nq)]]
                               /\ served' = IF found THEN served
                                            ELSE Unserve(stored.evicted)
                          ELSE /\ req' = [req EXCEPT ![r] =
                                    [base EXCEPT !.status = 200, !.body = "answers",
                                                 !.spawned = ~found,
                                                 !.task = Reached(answers, nq),
                                                 !.answers = answers]]
                               /\ served' = [(IF found THEN served
                                              ELSE Unserve(stored.evicted))
                                                EXCEPT ![url] = TRUE]

(***************************************************************************)
(* web_app.py: /hackrx/run.  Flask serves every request in a thread of its *)
(* own; the threads share request_counts and nothing else.                 *)
(***************************************************************************)
InCheck(rq) == rq.pc \in {"assign", "check", "append"}

\* history: the requests of the client that are inside check_rate_limit
Racing(ip) == {s \in Slots : InCheck(req[s]) /\ req[s].ip = ip}

\* check_rate_limit: now = time.time() and the list comprehension over the
\* client's current list
W_Start(r, ip) ==
    /\ impl = "web_app"
    /\ Free(req[r])
    /\ req' = [s \in Slots |->
                  IF s = r
                  THEN [IdleReq EXCEPT !.pc = "assign", !.ip = ip, !.lookup_time = now,
                                       !.snap = CleanOld(requests[ip], now),
                                       !.seen = SeenInWindow(ip, now),
                                       !.due = Due(ip, now) /\ Racing(ip) = {}]
                  ELSE IF s \in Racing(ip) THEN [req[s] EXCEPT !.due = FALSE]
                  ELSE req[s]]
    /\ UNCHANGED <<impl, now, requests, document_cache, cache_timestamps, inserts,
                   builds, served, hist>>

\* check_rate_limit: request_counts[client_ip] = [...]
W_Assign(r) ==
    /\ impl = "web_app"
    /\ req[r].pc = "assign"
    /\ requests' = [requests EXCEPT ![req[r].ip] = req[r].snap]
    /\ req' = [req EXCEPT ![r] = [@ EXCEPT !.pc = "check", !.snap = <<>>]]
    /\ UNCHANGED <<impl, now, document_cache, cache_timestamps, inserts, builds, served,
                   hist>>

\* check_rate_limit: the length test; over the limit the handler answers 429
W_Check(r) ==
    /\ impl = "web_app"
    /\ req[r].pc = "check"
    /\ req' = [req EXCEPT ![r] =
                  IF OverLimit(requests[req[r].ip])
                  THEN [@ EXCEPT !.pc = "done", !.status = 429, !.body = "error"]
                  ELSE [@ EXCEPT !.pc = "append"]]
    /\ admitted' = [admitted EXCEPT ![req[r].ip] =
                       IF OverLimit(requests[req[r].ip]) THEN @
                       ELSE Remember(@, req[r].lookup_time)]
    /\ rejected' = [rejected EXCEPT ![req[r].ip] = OverLimit(requests[req[r].ip])]
    /\ UNCHANGED <<impl, now, requests, document_cache, cache_timestamps, inserts,
                   builds, served>>

\* check_rate_limit: request_counts[client_ip].append(now); then the rest of
\* the handler, which works on the request's own data only
W_Proceed(r, auth, documents, nq, build, outcome) ==
    /\ impl = "web_app"
    /\ req[r].pc = "append"
    /\ requests' = [requests EXCEPT ![req[r].ip] = Append(@, req[r].lookup_time)]
    /\ LET base == [req[r] EXCEPT !.pc = "done"]
           answers == AnswerLoop(<<>>, 1, outcome)
       IN req' = [req EXCEPT ![r] =
              IF auth # "good" THEN [base EXCEPT !.status = 401, !.body = "error"]
              ELSE IF documents = <<>> \/ nq = 0 \/ ~IsUrl(documents)
              THEN [base EXCEPT !.status = 400, !.body = "error"]
              ELSE IF build = "fails"
              THEN [base EXCEPT !.status = 500, !.body = "error", !.nq = nq,
                                !.url = UrlId(documents)]
              ELSE IF LoopRaised(answers)
              THEN [base EXCEPT !.status = 500, !.body = "error", !.nq = nq,
                                !.url = UrlId(documents),
                                !.task = Reached(answers, nq)]
              ELSE [base EXCEPT !.status = 200, !.body = "answers", !.nq = nq,
                                !.url = UrlId(documents),
                                !.task = Reached(answers, nq), !.answers = answers]]
    /\ UNCHANGED <<impl, now, document_cache, cache_timestamps, inserts, builds, served,
                   hist>>

(***************************************************************************)
(* The Authorization header and the JSON body of a request.  A header is a *)
(* sequence of pieces: a scheme with its blank, a token, or white space.   *)
(***************************************************************************)
Secret == <<"secret">>

\* verify_bearer_token: authorization.startswith('Bearer ')
HasScheme(authorization) == authorization # <<>> /\ Head(authorization) = "Bearer "

\* authorization.split('Bearer ')[-1]: what follows the last 'Bearer '
RECURSIVE AfterLast(_)
AfterLast(authorization) ==
    IF \E i \in 1..Len(authorization) : authorization[i] = "Bearer "
    THEN AfterLast(Tail(authorization))
    ELSE authorization

\* str.strip() over pieces, of which " " is white space
RECURSIVE lstrip(_)
lstrip(text) ==
    IF text # <<>> /\ Head(text) = " " THEN lstrip(Tail(text)) ELSE text

RECURSIVE rstrip(_)
rstrip(text) ==
    IF text # <<>> /\ text[Len(text)] = " "
    THEN rstrip(SubSeq(text, 1, Len(text) - 1)) ELSE text

strip(text) == rstrip(lstrip(text))

\* verify_bearer_token of the three programs; required_token is <<>> when the
\* environment variable is unset or empty
verify_bearer_token(program, required_token, authorization) ==
    /\ required_token # <<>>
    /\ HasScheme(authorization)
    /\ LET token == IF program = "new_app" THEN strip(Tail(authorization))
                    ELSE strip(AfterLast(authorization))
       IN token = required_token

Auth(program, required_token, authorization) ==
    IF verify_bearer_token(program, required_token, authorization) THEN "good" ELSE "bad"

\* a body: no body at all, bytes that are no JSON, a JSON array, or a JSON
\* object with its documents and questions values
NoValue == <<>>
QList(n) == <<"list", n>>
QText == <<"str">>
DocList == <<"list">>
Body(kind, documents, questions) ==
    [kind |-> kind, documents |-> documents, questions |-> questions]

\* questions as the handlers see them once they are a list or None
QCount(questions) == IF questions # NoValue /\ questions[1] = "list" THEN questions[2] ELSE 0

\* documents: Optional[str] = Body(None), questions: Optional[List[str]] =
\* Body(None): the framework hands the handler a string or None and a list or
\* None, and answers every other body itself
BodyFits(body) ==
    \/ body.kind = "absent"
    \/ /\ body.kind = "object"
       /\ body.documents # DocList
       /\ body.questions # QText

\* the framework's answer to a body that does not fit: 422, or 400 from the
\* releases that report unreadable JSON that way
Unfit(body) == IF body.kind = "malformed" THEN {400, 422} ELSE {422}

\* app.py and new_app.py: a body that does not fit the signature of
\* hackrx_run is answered before the handler is called
FA_Unprocessable(r, ip, body, code) ==
    /\ impl \in {"app", "new_app"}
    /\ Free(req[r])
    /\ impl = "new_app" => LoopFree
    /\ ~BodyFits(body)
    /\ code \in Unfit(body)
    /\ req' = [req EXCEPT ![r] = [Rejected(ip, code, "detail") EXCEPT !.lookup_time = now,
                                      !.seen = SeenInWindow(ip, now)]]
    /\ UNCHANGED <<impl, now, requests, document_cache, cache_timestamps, inserts,
                   builds, served, hist>>

\* web_app.py hackrx_run between the token check and the document: is_json,
\* get_json, data.get and the validation; 0 when the body passes, 500 when
\* one of them raises into the handler's except
WebBodyStatus(body) ==
    CASE body.kind = "absent" -> 400
      [] body.kind \in {"malformed", "array"} -> 500
      [] body.documents = NoValue -> 400
      [] body.questions = NoValue \/ body.questions = QList(0) -> 400
      [] body.questions = QText -> 400
      [] body.documents = DocList -> 500
      [] ~IsUrl(body.documents) -> 400
      [] OTHER -> 0

\* web_app.py hackrx_run after the rate check, on any header and body
W_Handle(r, required_token, authorization, body, build, outcome) ==
    IF verify_bearer_token("web_app", required_token, authorization)
         /\ WebBodyStatus(body) \in {500}
    THEN /\ impl = "web_app"
         /\ req[r].pc = "append"
         /\ requests' = [requests EXCEPT ![req[r].ip] = Append(@, req[r].lookup_time)]
         /\ req' = [req EXCEPT ![r] = [@ EXCEPT !.pc = "done", !.status = 500,
                                                !.body = "error"]]
         /\ UNCHANGED <<impl, now, document_cache, cache_timestamps, inserts, builds,
                        served, hist>>
    ELSE W_Proceed(r, Auth("web_app", required_token, authorization),
                   IF body.documents = DocList THEN NoValue ELSE body.documents,
                   QCount(body.questions), build, outcome)

(***************************************************************************)
(* Initial state: the process has just started.                            *)
(***************************************************************************)
Urls == 1..(MAX_CACHE_SIZE + 1)

NoCall == [fn |-> "none"]

InitOf(programs) ==
    /\ impl \in programs
    /\ now = 0
    /\ requests = [c \in Clients |-> <<>>]
    /\ document_cache = <<>>
    /\ cache_timestamps = <<>>
    /\ req = [s \in Slots |-> IdleReq]
    /\ inserts = {}
    /\ builds = [u \in Urls |-> 0]
    /\ served = [u \in Urls |-> FALSE]
    /\ nreq = 0
    /\ admitted = [c \in Clients |-> <<>>]
    /\ rejected = [c \in Clients |-> FALSE]

(***************************************************************************)
(* Scenarios.  Client c1 sends at most MaxReqs requests.                   *)
(***************************************************************************)
Good == <<"ok", "object">>

Sent(A) == nreq < MaxReqs /\ nreq' = nreq + 1 /\ A /\ UNCHANGED call

Step(A) == A /\ UNCHANGED <<nreq, call>>

(***************************************************************************)
(* Document resolution (app.py and new_app.py): client c1 asks for two     *)
(* documents, one request after the other, at any time; builds fail, time  *)
(* passes and the cache is cleared at any moment.                          *)
(***************************************************************************)
ResolveNext ==
    \/ \E u \in {1, 2} :
          \/ Sent(NA_Receive(1, "c1", "good", Url(u), 1))
          \/ \E build \in {"ok", "fails"} :
                Sent(App_hackrx_run(1, "c1", "good", Url(u), 1, build, <<Good>>))
    \/ Step(NA_CacheGet(1))
    \/ Step(NA_BuildOk(1))
    \/ Step(NA_BuildFail(1))
    \/ \E t \in inserts : Step(NA_CacheDocument(t))
    \/ Step(NA_Acquire(1, 1))
    \/ Step(NA_Run(1, 1))
    \/ Step(NA_Finish(1, 1, "ok", "object"))
    \/ Step(NA_Respond(1))
    \/ Step(NA_ClearCache("good"))
    \/ Step(Tick(CACHE_TTL, MaxCacheTicks * CACHE_TTL))

ResolveSpec == InitOf({"app", "new_app"}) /\ call = NoCall /\ [][ResolveNext]_vars

(***************************************************************************)
(* The document cache at capacity (app.py and new_app.py).  Client c0      *)
(* first has as many documents processed, one after the other, as leave    *)
(* one place in the cache; then client c1 asks for the oldest of them and  *)
(* for two further documents, in any order.  Between requests time passes  *)
(* and the cache is cleared, while cache_document calls may still be       *)
(* waiting for their thread.                                               *)
(***************************************************************************)
WarmDocs == MaxCache - 1

FreeUrls == {1, MaxCache, MaxCache + 1}

NextWarm == {u \in 1..WarmDocs : builds[u] = 0 /\ \A v \in 1..(u - 1) : builds[v] > 0}

Warmed == \A u \in 1..WarmDocs : builds[u] > 0

Quiet == inserts = {} /\ \A s \in Slots : Free(req[s])

CacheNext ==
    \/ \E u \in NextWarm :
          /\ Quiet
          /\ \/ Step(NA_Receive(1, "c0", "good", Url(u), 1))
             \/ Step(App_hackrx_run(1, "c0", "good", Url(u), 1, "ok", <<Good>>))
    \/ \E u \in FreeUrls :
          /\ Warmed
          /\ \/ Sent(NA_Receive(1, "c1", "good", Url(u), 1))
             \/ Sent(App_hackrx_run(1, "c1", "good", Url(u), 1, "ok", <<Good>>))
    \/ Step(NA_CacheGet(1))
    \/ Step(NA_BuildOk(1))
    \/ \E t \in inserts : Step(NA_CacheDocument(t))
    \/ Step(NA_Acquire(1, 1))
    \/ Step(NA_Run(1, 1))
    \/ Step(NA_Finish(1, 1, "ok", "object"))
    \/ Step(NA_Respond(1))
    \/ Warmed /\ Quiet /\ Step(NA_ClearCache("good"))
    \/ Warmed /\ Free(req[1]) /\ Step(Tick(CACHE_TTL, MaxCacheTicks * CACHE_TTL))

CacheSpec == InitOf({"app", "new_app"}) /\ call = NoCall /\ [][CacheNext]_vars

(***************************************************************************)
(* Two misses on one document (new_app.py).  Client c0 first has as many   *)
(* documents processed as leave one place in the cache; then client c1     *)
(* sends requests for one further document, two of them at a time.         *)
(***************************************************************************)
RaceNext ==
    \/ \E u \in NextWarm : Quiet /\ Step(NA_Receive(1, "c0", "good", Url(u), 1))
    \/ \E r \in Slots : Warmed /\ Sent(NA_Receive(r, "c1", "good", Url(MaxCache), 1))
    \/ \E r \in Slots : Step(NA_CacheGet(r))
    \/ \E r \in Slots : Step(NA_BuildOk(r))
    \/ \E t \in inserts : Step(NA_CacheDocument(t))
    \/ \E r \in Slots : Step(NA_Acquire(r, 1))
    \/ \E r \in Slots : Step(NA_Run(r, 1))
    \/ \E r \in Slots : Step(NA_Finish(r, 1, "ok", "object"))
    \/ \E r \in Slots : Step(NA_Respond(r))

RaceSpec == InitOf({"new_app"}) /\ call = NoCall /\ [][RaceNext]_vars

(***************************************************************************)
(* The worker pool (new_app.py): two requests on one document are answered *)
(* at the same time, one with MaxQuestions questions and one with two.     *)
(***************************************************************************)
PoolQuestions(r) == IF r = 1 THEN MaxQuestions ELSE 2

PoolNext ==
    \/ \E r \in Slots :
          /\ req[r].pc = "idle"
          /\ Step(NA_Receive(r, "c1", "good", Url(1), PoolQuestions(r)))
    \/ \E r \in Slots : Step(NA_CacheGet(r))
    \/ \E r \in Slots : Step(NA_BuildOk(r))
    \/ \E t \in inserts : Step(NA_CacheDocument(t))
    \/ \E r \in Slots, i \in 1..MaxQuestions : Step(NA_Acquire(r, i))
    \/ \E r \in Slots, i \in 1..MaxQuestions : Step(NA_Run(r, i))
    \/ \E r \in Slots, i \in 1..MaxQuestions : Step(NA_Finish(r, i, "ok", "object"))
    \/ \E r \in Slots : Step(NA_Respond(r))

PoolSpec == InitOf({"new_app"}) /\ call = NoCall /\ [][PoolNext]_vars

(***************************************************************************)
(* Answering (all three programs): client c1 sends MaxAsked requests with  *)
(* one or with MaxQuestions questions on one document; every question's    *)
(* retrieval and LLM call ends in any of its outcomes, in any order.       *)
(***************************************************************************)
QCounts == {1, MaxQuestions}

\* what answering one question can meet: a retrieval that raises, or any text
\* from the LLM
TaskOutcomes == {o \in Retrievals \X LLMOutputs : o[1] = "ok" \/ o[2] = "object"}

\* the outcomes that the sequential handlers tell apart
LoopOutcomes == {o \in TaskOutcomes : o[2] \in {"object", "api_error"}}

Asked(A) == nreq < MaxAsked /\ nreq' = nreq + 1 /\ A /\ UNCHANGED call

DispatchNext ==
    \/ \E n \in QCounts : Asked(NA_Receive(1, "c1", "good", Url(1), n))
    \/ Step(NA_CacheGet(1))
    \/ Step(NA_BuildOk(1))
    \/ \E t \in inserts : Step(NA_CacheDocument(t))
    \/ \E i \in 1..MaxQuestions : Step(NA_Acquire(1, i))
    \/ \E i \in 1..MaxQuestions : Step(NA_Run(1, i))
    \/ \E i \in 1..MaxQuestions, o \in TaskOutcomes : Step(NA_Finish(1, i, o[1], o[2]))
    \/ Step(NA_Respond(1))
    \/ \E n \in QCounts : \E outcome \in [1..n -> LoopOutcomes] :
          Asked(App_hackrx_run(1, "c1", "good", Url(1), n, "ok", outcome))
    \/ Asked(W_Start(1, "c1"))
    \/ Step(W_Assign(1))
    \/ Step(W_Check(1))
    \/ \E n \in QCounts : \E outcome \in [1..n -> LoopOutcomes] :
          Step(W_Proceed(1, "good", Url(1), n, "ok", outcome))

DispatchSpec == InitOf(Impls) /\ call = NoCall /\ [][DispatchNext]_vars

(***************************************************************************)
(* Rate limiting without threads (app.py and new_app.py): client c1 sends  *)
(* up to MaxReqs requests more than the threshold, client c0 a few, while  *)
(* time passes in steps of half a window.                                  *)
(***************************************************************************)
Burst(A) == nreq < MaxRequests + MaxReqs /\ nreq' = nreq + 1 /\ A /\ UNCHANGED call

HalfWindow == Window \div 2

RateNext ==
    \/ \E auth \in {"good", "bad"} :
          \/ Burst(NA_Receive(1, "c1", auth, <<>>, 0))
          \/ Burst(App_hackrx_run(1, "c1", auth, <<>>, 0, "ok", <<>>))
    \/ /\ Len(requests["c0"]) < MaxOther
       /\ \/ Step(NA_Receive(1, "c0", "bad", <<>>, 0))
          \/ Step(App_hackrx_run(1, "c0", "bad", <<>>, 0, "ok", <<>>))
    \/ Step(Tick(HalfWindow, MaxRateTicks * HalfWindow))

RateSpec == InitOf({"app", "new_app"}) /\ call = NoCall /\ [][RateNext]_vars

(***************************************************************************)
(* Rate limiting under threads (web_app.py): client c1 sends up to MaxReqs *)
(* requests more than the threshold, two of them at a time.                *)
(***************************************************************************)
ThreadNext ==
    \/ \E r \in Slots : Burst(W_Start(r, "c1"))
    \/ \E r \in Slots : Step(W_Assign(r))
    \/ \E r \in Slots : Step(W_Check(r))
    \/ \E r \in Slots : Step(W_Proceed(r, "bad", <<>>, 0, "ok", <<>>))
    \/ Quiet /\ Step(Tick(HalfWindow, MaxRateTicks * HalfWindow))

ThreadSpec == InitOf({"web_app"}) /\ call = NoCall /\ [][ThreadNext]_vars

(***************************************************************************)
(* The checks of /hackrx/run (all three programs), on a server with or     *)
(* without a secret: client c1 sends MaxReqs requests with any header and  *)
(* any body, one after the other; once one of them has been counted by the *)
(* rate limiter, it sends requests without header until it is one short of *)
(* the threshold, and then the rest.                                       *)
(***************************************************************************)
GateHeaders == {<<>>, <<"Bearer ", "secret">>, <<"Bearer ", "wrong">>, <<"Basic ", "secret">>}

Bodies ==
    {Body("absent", NoValue, NoValue), Body("malformed", NoValue, NoValue),
     Body("array", NoValue, NoValue)}
    \cup {Body("object", d, q) : d \in {NoValue, Url(1), <<"ftp", 1>>, DocList},
                                  q \in {NoValue, QList(0), QList(1), QText}}

\* history: the header and the body of the request that slot 1 holds
Posted(A, authorization, body) ==
    /\ nreq < MaxReqs
    /\ requests["c1"] = <<>> \/ Len(requests["c1"]) >= MaxRequests - 1
    /\ nreq' = nreq + 1
    /\ A
    /\ call' = [call EXCEPT !.authorization = authorization, !.body = body]

NoBody == Body("absent", NoValue, NoValue)

Flood(A) ==
    /\ requests["c1"] # <<>>
    /\ Len(requests["c1"]) < MaxRequests - 1
    /\ A
    /\ call' = [call EXCEPT !.authorization = <<>>, !.body = NoBody]
    /\ UNCHANGED nreq

GateNext ==
    \/ \E h \in GateHeaders, b \in Bodies :
          \/ /\ BodyFits(b)
             /\ Posted(NA_Receive(1, "c1", Auth("new_app", call.required_token, h),
                                  b.documents, QCount(b.questions)), h, b)
          \/ /\ BodyFits(b)
             /\ Posted(App_hackrx_run(1, "c1", Auth("app", call.required_token, h),
                                      b.documents, QCount(b.questions), "ok", <<Good>>),
                       h, b)
          \/ \E code \in Unfit(b) : Posted(FA_Unprocessable(1, "c1", b, code), h, b)
          \/ Posted(W_Start(1, "c1"), h, b)
    \/ Flood(NA_Receive(1, "c1", "bad", <<>>, 0))
    \/ Flood(App_hackrx_run(1, "c1", "bad", <<>>, 0, "ok", <<>>))
    \/ Flood(W_Start(1, "c1"))
    \/ Step(W_Assign(1))
    \/ Step(W_Check(1))
    \/ Step(W_Handle(1, call.required_token, call.authorization, call.body, "ok", <<Good>>))
    \/ Step(NA_CacheGet(1))
    \/ Step(NA_BuildOk(1))
    \/ \E t \in inserts : Step(NA_CacheDocument(t))
    \/ Step(NA_Acquire(1, 1))
    \/ Step(NA_Run(1, 1))
    \/ Step(NA_Finish(1, 1, "ok", "object"))
    \/ Step(NA_Respond(1))

GateInit ==
    /\ InitOf(Impls)
    /\ call \in {[fn |-> "hackrx_run", required_token |-> t, authorization |-> <<>>,
                   body |-> NoBody] : t \in {<<>>, Secret}}

GateSpec == GateInit /\ [][GateNext]_vars

(***************************************************************************)
(* The life of a request (new_app.py): client c1 sends one request to each *)
(* slot, with any body, at any time; downloads and builds succeed or       *)
(* fail, LLM calls return or raise.  The server does not stop while one of *)
(* its threads, tasks or workers can take a step.                          *)
(***************************************************************************)
LiveBodies ==
    {Body("malformed", NoValue, NoValue), Body("object", NoValue, QList(1)),
     Body("object", Url(1), QList(0)), Body("object", Url(1), QList(2)),
     Body("object", Url(1), QText)}

\* the steps of the server that need no client
LiveStep ==
    \/ \E r \in Slots : Step(NA_CacheGet(r))
    \/ \E r \in Slots : Step(NA_BuildOk(r))
    \/ \E r \in Slots : Step(NA_BuildFail(r))
    \/ \E t \in inserts : Step(NA_CacheDocument(t))
    \/ \E r \in Slots, i \in 1..2 : Step(NA_Acquire(r, i))
    \/ \E r \in Slots, i \in 1..2 : Step(NA_Run(r, i))
    \/ \E r \in Slots, i \in 1..2, o \in {<<"ok", "object">>, <<"raises", "object">>} :
          Step(NA_Finish(r, i, o[1], o[2]))
    \/ \E r \in Slots : Step(NA_Respond(r))

LiveNext ==
    \/ \E r \in Slots, b \in LiveBodies, auth \in {"good", "bad"} :
          /\ req[r].pc = "idle"
          /\ BodyFits(b)
          /\ Step(NA_Receive(r, "c1", auth, b.documents, QCount(b.questions)))
    \/ \E r \in Slots, b \in LiveBodies : \E code \in Unfit(b) :
          /\ req[r].pc = "idle"
          /\ Step(FA_Unprocessable(r, "c1", b, code))
    \/ LiveStep

LiveSpec ==
    /\ InitOf({"new_app"})
    /\ call = NoCall
    /\ [][LiveNext]_vars
    /\ WF_vars(LiveStep)

(***************************************************************************)
(* The quota of a client (app.py and new_app.py): client c1 sends requests *)
(* that end in every way, MaxReqs of them of any kind when its list is     *)
(* empty or near the threshold and requests without a token in between,    *)
(* while time passes in steps of half a window.                            *)
(***************************************************************************)
NoneSent == [fn |-> "is_allowed", sent |-> <<>>]

\* history: when the request arrived, and the status it was answered with
\* at once (0 when the handler went on to the document)
Counted(A) ==
    /\ A
    /\ call' = [call EXCEPT !.sent =
                    Append(SelectSeq(@, LAMBDA x : x.time > now - 2 * Window),
                           [time |-> now, status |-> req'[1].status])]

Varied(A) ==
    /\ nreq < MaxReqs
    /\ requests["c1"] = <<>> \/ Len(requests["c1"]) >= MaxRequests - 1
    /\ nreq' = nreq + 1
    /\ Counted(A)

Between(A) ==
    /\ requests["c1"] # <<>>
    /\ Len(requests["c1"]) < MaxRequests - 1
    /\ Counted(A)
    /\ UNCHANGED nreq

QuotaNext ==
    \/ \E auth \in {"good", "bad"}, documents \in {<<>>, Url(1)} :
          \/ Varied(NA_Receive(1, "c1", auth, documents, 1))
          \/ \E build \in {"ok", "fails"} :
                Varied(App_hackrx_run(1, "c1", auth, documents, 1, build, <<Good>>))
    \/ Varied(FA_Unprocessable(1, "c1", Body("object", Url(1), QText), 422))
    \/ Between(NA_Receive(1, "c1", "bad", <<>>, 0))
    \/ Between(App_hackrx_run(1, "c1", "bad", <<>>, 0, "ok", <<>>))
    \/ Step(NA_CacheGet(1))
    \/ Step(NA_BuildOk(1))
    \/ Step(NA_BuildFail(1))
    \/ \E t \in inserts : Step(NA_CacheDocument(t))
    \/ Step(NA_Acquire(1, 1))
    \/ Step(NA_Run(1, 1))
    \/ Step(NA_Finish(1, 1, "ok", "object"))
    \/ Step(NA_Respond(1))
    \/ Step(Tick(HalfWindow, MaxRateTicks * HalfWindow))

QuotaSpec == InitOf({"app", "new_app"}) /\ call = NoneSent /\ [][QuotaNext]_vars

(***************************************************************************)
(* The sections under _cache_lock (new_app.py), one dictionary operation   *)
(* at a step.  cache_document runs in threads of its own; the clean-up of  *)
(* get_cached_document and /clear-cache run on the event loop.  One thread *)
(* first fills the cache up to one entry below its capacity; then the      *)
(* threads enter MaxSections sections in any order, and time passes        *)
(* between the sections.                                                   *)
(***************************************************************************)
LockThreads == {"insert1", "insert2", "loop"}

Outside == [pc |-> "outside", key |-> 0, expired_keys |-> <<>>]

LockIdle == [fn |-> "_cache_lock", holder |-> "none",
             th |-> [t \in LockThreads |-> Outside],
             \* history: min() raised on an empty dictionary; an eviction picked a key
             raised |-> FALSE, picked |-> FALSE,
             \* history: the sections entered since the cache was filled
             entered |-> 0]

\* a section that takes the lock whoever holds it
CacheLockFree_Unlocked == TRUE

\* threading.Lock: a with statement enters when no thread holds the lock
CacheLockFree == call.holder = "none"

\* with _cache_lock: the thread enters its section
Enter(t, pc, key, counted) ==
    /\ call.fn = "_cache_lock"
    /\ call.th[t].pc = "outside"
    /\ CacheLockFree
    /\ call.entered + counted <= MaxSections
    /\ call' = [call EXCEPT !.holder = t, !.entered = @ + counted,
                            !.th[t] = [Outside EXCEPT !.pc = pc, !.key = key]]
    /\ UNCHANGED server

\* the end of the with block, by its last statement or by an exception
Leave(t, raised) ==
    [call EXCEPT !.holder = IF @ = t THEN "none" ELSE @, !.th[t] = Outside,
                 !.raised = @ \/ raised]

At(t, pc) == call.fn = "_cache_lock" /\ call.th[t].pc = pc

OnCache(t, pc, dc, ts, c) ==
    /\ At(t, pc)
    /\ document_cache' = dc
    /\ cache_timestamps' = ts
    /\ call' = c
    /\ UNCHANGED <<impl, now, requests, req, inserts, builds, served, nreq, hist>>

\* the documents a thread stores: the first one, or the first that is in neither dictionary
LockUrls ==
    {1} \cup {u \in Urls : /\ u \notin Keys(document_cache) \cup Keys(cache_timestamps)
                           /\ \A v \in 1..(u - 1) :
                                 v \in Keys(document_cache) \cup Keys(cache_timestamps)}

\* cache_document: len(_document_cache) >= MAX_CACHE_SIZE, and min() over the timestamps
CD_Check(t) ==
    OnCache(t, "cd_check", document_cache, cache_timestamps,
            IF ~AtCapacity(document_cache)
            THEN [call EXCEPT !.th[t].pc = "cd_set_doc"]
            ELSE IF cache_timestamps = <<>>
            THEN Leave(t, TRUE)
            ELSE [call EXCEPT !.th[t].pc = "cd_pop_doc", !.picked = TRUE,
                              !.th[t].expired_keys = <<OldestByTimestamp(cache_timestamps)>>])

\* _document_cache.pop(oldest_key, None)
CD_PopDoc(t) ==
    OnCache(t, "cd_pop_doc", PopKeys(document_cache, {call.th[t].expired_keys[1]}),
            cache_timestamps, [call EXCEPT !.th[t].pc = "cd_pop_ts"])

\* _cache_timestamps.pop(oldest_key, None)
CD_PopTs(t) ==
    OnCache(t, "cd_pop_ts", document_cache,
            PopKeys(cache_timestamps, {call.th[t].expired_keys[1]}),
            [call EXCEPT !.th[t].pc = "cd_set_doc"])

\* _document_cache[cache_key] = {...}
CD_SetDoc(t) ==
    OnCache(t, "cd_set_doc",
            DictSet(document_cache, call.th[t].key, [url |-> call.th[t].key, build |-> 1]),
            cache_timestamps, [call EXCEPT !.th[t].pc = "cd_set_ts"])

\* _cache_timestamps[cache_key] = time.time()
CD_SetTs(t) ==
    OnCache(t, "cd_set_ts", document_cache,
            DictSet(cache_timestamps, call.th[t].key, now), Leave(t, FALSE))

\* expired_keys of cleanup_expired_cache, in the order of _cache_timestamps.items()
expired_keys(current_time) ==
    LET old == SelectSeq(cache_timestamps, LAMBDA e : Expired(current_time, e.val))
    IN [i \in 1..Len(old) |-> old[i].key]

\* cleanup_expired_cache: the list of the expired keys
CE_Scan(t) ==
    OnCache(t, "ce_scan", document_cache, cache_timestamps,
            IF expired_keys(now) = <<>>
            THEN Leave(t, FALSE)
            ELSE [call EXCEPT !.th[t].pc = "ce_pop_doc",
                              !.th[t].expired_keys = expired_keys(now)])

\* _document_cache.pop(key, None)
CE_PopDoc(t) ==
    OnCache(t, "ce_pop_doc", PopKeys(document_cache, {call.th[t].expired_keys[1]}),
            cache_timestamps, [call EXCEPT !.th[t].pc = "ce_pop_ts"])

\* _cache_timestamps.pop(key, None), and the next key of the loop
CE_PopTs(t) ==
    OnCache(t, "ce_pop_ts", document_cache,
            PopKeys(cache_timestamps, {call.th[t].expired_keys[1]}),
            IF Len(call.th[t].expired_keys) = 1
            THEN Leave(t, FALSE)
            ELSE [call EXCEPT !.th[t].pc = "ce_pop_doc",
                              !.th[t].expired_keys = Tail(@)])

\* clear_cache: _document_cache.clear()
CC_ClearDocs(t) ==
    OnCache(t, "cc_clear_docs", <<>>, cache_timestamps,
            [call EXCEPT !.th[t].pc = "cc_clear_ts"])

\* clear_cache: _cache_timestamps.clear()
CC_ClearTs(t) ==
    OnCache(t, "cc_clear_ts", document_cache, <<>>, Leave(t, FALSE))

LockNext ==
    \/ \E u \in LockUrls \ Keys(document_cache) :
          /\ Len(document_cache) < WarmDocs
          /\ call.entered = 0
          /\ Enter("insert1", "cd_check", u, 0)
    \/ \E t \in {"insert1", "insert2"}, u \in LockUrls :
          /\ Len(document_cache) >= WarmDocs \/ call.entered > 0
          /\ Enter(t, "cd_check", u, 1)
    \/ Enter("loop", "ce_scan", 0, 1)
    \/ Enter("loop", "cc_clear_docs", 0, 1)
    \/ \E t \in LockThreads :
          \/ CD_Check(t)
          \/ CD_PopDoc(t)
          \/ CD_PopTs(t)
          \/ CD_SetDoc(t)
          \/ CD_SetTs(t)
          \/ CE_Scan(t)
          \/ CE_PopDoc(t)
          \/ CE_PopTs(t)
          \/ CC_ClearDocs(t)
          \/ CC_ClearTs(t)
    \/ /\ call.holder = "none"
       /\ Len(document_cache) >= WarmDocs \/ call.entered > 0
       /\ Step(Tick(CACHE_TTL, MaxCacheTicks * CACHE_TTL))

LockSpec == InitOf({"new_app"}) /\ call = LockIdle /\ [][LockNext]_vars

(***************************************************************************)
(* The Authorization header (all three programs): a client writes any      *)
(* header of up to MaxHeader pieces, and verify_bearer_token decides.      *)
(***************************************************************************)
HeaderPieces == {"Bearer ", "Basic ", "secret", "wrong", " "}

H_Write(piece) ==
    /\ call.fn = "verify_bearer_token"
    /\ call.pc = "header"
    /\ Len(call.authorization) < MaxHeader
    /\ call' = [call EXCEPT !.authorization = Append(@, piece)]
    /\ UNCHANGED server

VT_Return ==
    /\ call.fn = "verify_bearer_token"
    /\ call.pc = "header"
    /\ call' = [call EXCEPT !.pc = "done",
                            !.ok = verify_bearer_token(impl, call.required_token,
                                                       call.authorization)]
    /\ UNCHANGED server

TokenNext ==
    \/ \E piece \in HeaderPieces : H_Write(piece)
    \/ VT_Return

TokenInit ==
    /\ InitOf(Impls)
    /\ call \in {[fn |-> "verify_bearer_token", pc |-> "header", required_token |-> t,
                   authorization |-> <<>>, ok |-> FALSE] : t \in {<<>>, Secret}}

TokenSpec == TokenInit /\ [][TokenNext]_vars

(***************************************************************************)
(* The cache endpoints of new_app.py: while client c1 has two documents    *)
(* processed, /stats and /clear-cache are called with and without the      *)
(* valid token.                                                            *)
(***************************************************************************)
\* history: the last call of a cache endpoint, its token and its response
Admin(A, endpoint, auth, response) ==
    /\ A
    /\ call' = [fn |-> endpoint, auth |-> auth, response |-> response,
                changed |-> <<document_cache', cache_timestamps'>>
                                # <<document_cache, cache_timestamps>>]
    /\ UNCHANGED nreq

AdminNext ==
    \/ \E u \in {1, 2} : Sent(NA_Receive(1, "c1", "good", Url(u), 1))
    \/ Step(NA_CacheGet(1))
    \/ Step(NA_BuildOk(1))
    \/ \E t \in inserts : Step(NA_CacheDocument(t))
    \/ Step(NA_Acquire(1, 1))
    \/ Step(NA_Run(1, 1))
    \/ Step(NA_Finish(1, 1, "ok", "object"))
    \/ Step(NA_Respond(1))
    \/ \E auth \in {"good", "bad"} :
          \/ Admin(NA_GetStats, "get_stats", auth, get_stats_response)
          \/ Admin(NA_ClearCache(auth), "clear_cache", auth, clear_cache_response(auth))

AdminSpec == InitOf({"new_app"}) /\ call = NoCall /\ [][AdminNext]_vars

(***************************************************************************)
(* Retrieval and prompt (app.py and new_app.py).  A text is known by its   *)
(* number of characters; the texts of documents and questions are words of *)
(* WordLen letters with a blank between them, without punctuation.         *)
(***************************************************************************)
WordLen == 5

Words(chars) == (chars + WordLen) \div (WordLen + 1)

Min(a, b) == IF a < b THEN a ELSE b

\* the default of k in retrieve_relevant_chunks
DefaultK == IF impl = "new_app" THEN NA_K ELSE App_K

\* the length after which retrieve_relevant_chunks cuts a chunk
ChunkCut == IF impl = "new_app" THEN NA_CHUNK_CUT ELSE App_CHUNK_CUT

\* chunks[i] for an index of the search: Python counts -1 from the end
Subscript(chunks, i) == IF i = -1 THEN Len(chunks) ELSE i

\* retrieve_relevant_chunks, one turn of its loop: the chunk of the index,
\* cut and marked with three dots when it is long
Retrieved(chunks, i) ==
    LET c == chunks[Subscript(chunks, i)]
    IN IF c.chars > ChunkCut THEN [id |-> c.id, chars |-> ChunkCut + 3] ELSE c

\* chunks[-1] of an empty list raises IndexError
IndexError(chunks, i) == i = -1 /\ chunks = <<>>

\* the numbered lines of the chunks in the full prompt
RECURSIVE ContextChars(_)
ContextChars(cs) ==
    IF cs = <<>> THEN 0
    ELSE 3 + Head(cs).chars + (IF Tail(cs) = <<>> THEN 0 ELSE 1 + ContextChars(Tail(cs)))

RECURSIVE ContextWords(_)
ContextWords(cs) ==
    IF cs = <<>> THEN 0 ELSE 1 + Words(Head(cs).chars) + ContextWords(Tail(cs))

FullPrompt(query, relevant_chunks) ==
    [template |-> "full", query |-> query, chunks |-> relevant_chunks]

\* the second template: relevant_chunks[0][:300]
ShortPrompt(query, relevant_chunks) ==
    [template |-> "short", query |-> query,
     chunks |-> <<[Head(relevant_chunks) EXCEPT !.chars = Min(@, SHORT_CHUNK)]>>]

\* len(prompt)
PromptChars(prompt) ==
    IF prompt.template = "short"
    THEN SHORT_CHARS + prompt.query + prompt.chunks[1].chars
    ELSE (IF impl = "new_app" THEN NA_FULL_CHARS ELSE App_FULL_CHARS)
            + prompt.query + ContextChars(prompt.chunks)

\* len(prompt.split())
PromptWords(prompt) ==
    IF prompt.template = "short"
    THEN SHORT_WORDS + Words(prompt.query) + Words(prompt.chunks[1].chars)
    ELSE (IF impl = "new_app" THEN NA_FULL_WORDS ELSE App_FULL_WORDS)
            + Words(prompt.query) + ContextWords(prompt.chunks)

\* the punctuation marks of the prompt, all of them in the template
PromptPunctuation(prompt) ==
    IF prompt.template = "short" THEN SHORT_PUNCT
    ELSE App_FULL_PUNCT + Len(prompt.chunks)

\* estimate_tokens: int(chars / 3.8 + words * 0.1) in new_app.py; in app.py
\* int(chars / 4.0, times 1.2 when the average word is longer than 6, plus
\* half the punctuation marks)
estimate_tokens(prompt) ==
    IF impl = "new_app"
    THEN (100 * PromptChars(prompt) + 38 * PromptWords(prompt)) \div 380
    ELSE LET long == PromptWords(prompt) > 0
                       /\ PromptChars(prompt) > 6 * PromptWords(prompt)
         IN ((IF long THEN 12 ELSE 10) * PromptChars(prompt)
                + 20 * PromptPunctuation(prompt)) \div 40

\* a ceiling that already counts as exceeded when it is reached
TooLong_AtCeiling(estimated_tokens) == estimated_tokens >= MAX_PROMPT_TOKENS

\* if estimated_tokens > 8000
TooLong(estimated_tokens) == estimated_tokens > MAX_PROMPT_TOKENS

\* generate_response is called with the chunks of a document and a question
GR_Call(n, size, query) ==
    /\ impl \in {"app", "new_app"}
    /\ call.fn = "none"
    /\ call' = [fn |-> "generate_response", pc |-> "search",
                chunks |-> [i \in 1..n |-> [id |-> i, chars |-> size]],
                query |-> query, indices |-> <<>>, relevant_chunks |-> <<>>,
                full |-> <<>>, estimated_tokens |-> 0, prompt |-> <<>>, rebuilt |-> 0]
    /\ UNCHANGED server

\* index.search(query_embedding, k): the next nearest chunk, whichever it is,
\* and -1 once the index has no further one
IndexSearch(i) ==
    /\ call.fn = "generate_response"
    /\ call.pc = "search"
    /\ Len(call.indices) < DefaultK
    /\ IF Len(call.indices) < Len(call.chunks)
       THEN i \in 1..Len(call.chunks) /\ \A j \in 1..Len(call.indices) : call.indices[j] # i
       ELSE i = -1
    /\ call' = [call EXCEPT !.indices = Append(@, i)]
    /\ UNCHANGED server

\* retrieve_relevant_chunks: the loop over indices[0]
RC_Loop ==
    /\ call.fn = "generate_response"
    /\ call.pc = "search"
    /\ Len(call.indices) = DefaultK
    /\ Len(call.relevant_chunks) < DefaultK
    /\ LET i == call.indices[Len(call.relevant_chunks) + 1]
       IN call' = IF IndexError(call.chunks, i)
                  THEN [call EXCEPT !.pc = "raised"]
                  ELSE [call EXCEPT !.relevant_chunks = Append(@, Retrieved(call.chunks, i))]
    /\ UNCHANGED server

\* generate_response: the prompt, its estimate, and the second prompt when
\* the estimate is above the ceiling
GR_Prompt ==
    /\ call.fn = "generate_response"
    /\ call.pc = "search"
    /\ Len(call.relevant_chunks) = DefaultK
    /\ LET prompt == FullPrompt(call.query, call.relevant_chunks)
           estimated_tokens == estimate_tokens(prompt)
       IN call' = [call EXCEPT
                      !.pc = "send", !.full = <<prompt>>,
                      !.estimated_tokens = estimated_tokens,
                      !.prompt = IF TooLong(estimated_tokens)
                                 THEN <<ShortPrompt(call.query, call.relevant_chunks)>>
                                 ELSE <<prompt>>,
                      !.rebuilt = IF TooLong(estimated_tokens) THEN 1 ELSE 0]
    /\ UNCHANGED server

ChunkSizes == {90, 350, 450, 600}

\* questions of a few words, and of a length that brings the estimate of the
\* prompt to the ceiling
QuerySizes == {40} \cup (IF impl = "new_app" THEN {27011, 27012} ELSE {25622, 25623})

PromptNext ==
    \/ \E n \in 0..MaxChunks, size \in ChunkSizes, query \in QuerySizes :
          GR_Call(n, size, query)
    \/ \E i \in (1..MaxChunks) \cup {-1} : IndexSearch(i)
    \/ RC_Loop
    \/ GR_Prompt

PromptSpec == InitOf({"app", "new_app"}) /\ call = NoCall /\ [][PromptNext]_vars

(***************************************************************************)
(* Text normalisation (clean_text_fast of new_app.py, the same steps in    *)
(* the PDF extractors of app.py).  A text is a sequence of pieces: the     *)
(* blank, the newline and the tab are characters, the other pieces are     *)
(* words that str.replace looks for or writes.                             *)
(***************************************************************************)
\* str.replace(old, new): the occurrences of old from the left, not
\* overlapping
RECURSIVE replace(_, _, _)
replace(text, old, new) ==
    IF Len(text) < Len(old) THEN text
    ELSE IF SubSeq(text, 1, Len(old)) = old
    THEN new \o replace(SubSeq(text, Len(old) + 1, Len(text)), old, new)
    ELSE <<Head(text)>> \o replace(Tail(text), old, new)

\* what \s matches
IsSpace(c) == c \in {" ", "\n", "\t"}

\* the length of the run of white space a text begins with
RECURSIVE SpaceRun(_)
SpaceRun(text) ==
    IF text = <<>> \/ ~IsSpace(Head(text)) THEN 0 ELSE 1 + SpaceRun(Tail(text))

\* the last newline among the first n pieces, 0 without one
LastNewline(text, n) ==
    LET at == {i \in 1..n : text[i] = "\n"}
    IN IF at = {} THEN 0 ELSE CHOOSE i \in at : \A j \in at : j <= i

\* WHITESPACE_PATTERN.sub('\n\n', text): \n\s*\n is greedy, a match runs from
\* a newline to the last newline of the same run of white space
RECURSIVE sub_whitespace(_)
sub_whitespace(text) ==
    IF text = <<>> THEN <<>>
    ELSE LET last == LastNewline(text, SpaceRun(text))
         IN IF Head(text) = "\n" /\ last > 1
            THEN <<"\n", "\n">> \o sub_whitespace(SubSeq(text, last + 1, Len(text)))
            ELSE <<Head(text)>> \o sub_whitespace(Tail(text))

\* MULTIPLE_SPACES_PATTERN.sub(' ', text)
RECURSIVE sub_spaces(_)
sub_spaces(text) ==
    IF text = <<>> THEN <<>>
    ELSE IF Head(text) = " " /\ Len(text) > 1 /\ text[2] = " "
    THEN sub_spaces(Tail(text))
    ELSE <<Head(text)>> \o sub_spaces(Tail(text))

clean_text_fast(text) ==
    sub_spaces(sub_whitespace(
        replace(replace(text, <<"iviviv">>, <<>>),
                <<"Air", " ", "Ambulasce">>, <<"Air", " ", "Ambulance">>)))

TextPieces == {"iviviv", "Air", "Ambulasce", " ", "\n", "\t"}

\* the extracted text is written, piece after piece
CL_Write(piece) ==
    /\ impl \in {"app", "new_app"}
    /\ call.fn \in {"none", "clean_text_fast"}
    /\ call.fn = "clean_text_fast" => call.pc = "text" /\ Len(call.text) < MaxPieces
    /\ call' = [fn |-> "clean_text_fast", pc |-> "text",
                text |-> (IF call.fn = "none" THEN <<>> ELSE call.text) \o <<piece>>,
                cleaned |-> <<>>, again |-> <<>>]
    /\ UNCHANGED server

\* the text is cleaned
CL_Clean ==
    /\ call.fn = "clean_text_fast"
    /\ call.pc = "text"
    /\ call' = [call EXCEPT !.pc = "cleaned", !.cleaned = clean_text_fast(call.text)]
    /\ UNCHANGED server

\* the cleaned text is cleaned
CL_Again ==
    /\ call.fn = "clean_text_fast"
    /\ call.pc = "cleaned"
    /\ call' = [call EXCEPT !.pc = "again", !.again = clean_text_fast(call.cleaned)]
    /\ UNCHANGED server

CleanNext ==
    \/ \E piece \in TextPieces : CL_Write(piece)
    \/ CL_Clean
    \/ CL_Again

CleanSpec == InitOf({"app", "new_app"}) /\ call = NoCall /\ [][CleanNext]_vars

(***************************************************************************)
(* The chunker (create_optimized_chunks of new_app.py, the chunking of     *)
(* create_document_embeddings of app.py).  A text is a sequence of         *)
(* paragraphs between blank lines; a paragraph is the sequence of the      *)
(* lengths of its sentences, final period included, with one blank between *)
(* two sentences; a paragraph of white space only has no sentence.         *)
(***************************************************************************)
\* len(paragraph.strip())
ParagraphChars(paragraph) ==
    IF paragraph = <<>> THEN 0 ELSE SeqSum(paragraph) + Len(paragraph) - 1

\* the paragraph size up to which a paragraph is one chunk
MaxChunk == IF impl = "new_app" THEN NA_MAX_CHUNK ELSE App_MAX_CHUNK

\* the floor under which a chunk is dropped
MinChunk == IF impl = "new_app" THEN NA_MIN_CHUNK ELSE App_MIN_CHUNK

\* a chunker that keeps the last buffer of a paragraph whatever its length
LongEnough_Any(chars) == TRUE

\* len(chunk) >= 80 (new_app.py), len(chunk) >= 100 (app.py)
LongEnough(chars) == chars >= MinChunk

\* a chunk: its length, where it was appended, and the sentences of the
\* text it was made of
Chunk(chars, from, sentences) ==
    [chars |-> chars, from |-> from, sentences |-> sentences]

\* new_app.py: the loop over the sentences of a long paragraph; current is
\* len(current_chunk), held the sentences in current_chunk
RECURSIVE NA_Sentences(_, _, _)
NA_Sentences(sentences, current, held) ==
    IF sentences = <<>>
    THEN IF current > 0 /\ LongEnough(current)
         THEN <<Chunk(current, "last", held)>> ELSE <<>>
    ELSE LET test_chunk == current + (IF current > 0 THEN 1 ELSE 0) + Head(sentences)
         IN IF test_chunk <= MaxChunk
            THEN NA_Sentences(Tail(sentences), test_chunk, Append(held, Head(sentences)))
            ELSE (IF current > 0 /\ current >= MinChunk
                  THEN <<Chunk(current, "flush", held)>> ELSE <<>>)
                 \o NA_Sentences(Tail(sentences), Head(sentences), <<Head(sentences)>>)

\* app.py: paragraph.split(". ") takes the period and the blank from every
\* sentence but the last
RECURSIVE SplitPeriod(_)
SplitPeriod(paragraph) ==
    IF Len(paragraph) <= 1 THEN paragraph
    ELSE <<Head(paragraph) - 1>> \o SplitPeriod(Tail(paragraph))

\* app.py: the loop over the sentences of a long paragraph; current is
\* len(current_chunk), which ends with ". " that strip() shortens by one
\* sentences are the pieces of the split, whole the same sentences as the
\* text has them, held those in current_chunk
RECURSIVE App_Sentences(_, _, _, _)
App_Sentences(sentences, whole, current, held) ==
    IF sentences = <<>>
    THEN IF current > 0 THEN <<Chunk(current - 1, "last", held)>> ELSE <<>>
    ELSE IF current + Head(sentences) + 2 <= MaxChunk
         THEN App_Sentences(Tail(sentences), Tail(whole),
                            current + Head(sentences) + 2, Append(held, Head(whole)))
         ELSE (IF current > 0 THEN <<Chunk(current - 1, "flush", held)>> ELSE <<>>)
              \o App_Sentences(Tail(sentences), Tail(whole),
                               Head(sentences) + 2, <<Head(whole)>>)

\* the chunks of one paragraph
ParagraphChunks(paragraph) ==
    IF paragraph = <<>> THEN <<>>
    ELSE IF ParagraphChars(paragraph) <= MaxChunk
    THEN IF impl = "app" \/ ParagraphChars(paragraph) >= MinChunk
         THEN <<Chunk(ParagraphChars(paragraph), "paragraph", paragraph)>> ELSE <<>>
    ELSE IF impl = "new_app" THEN NA_Sentences(paragraph, 0, <<>>)
    ELSE App_Sentences(SplitPeriod(paragraph), paragraph, 0, <<>>)

\* the text to chunk is written: a new paragraph begins
TX_Paragraph ==
    /\ impl \in {"app", "new_app"}
    /\ call.fn \in {"none", "chunks"}
    /\ call.fn = "chunks" => call.pc = "text" /\ Len(call.text) < MaxParagraphs
    /\ call' = [fn |-> "chunks", pc |-> "text",
                text |-> (IF call.fn = "none" THEN <<>> ELSE call.text) \o << <<>> >>,
                paragraph |-> 0, chunks |-> <<>>]
    /\ UNCHANGED server

\* a sentence of the last paragraph
TX_Sentence(chars) ==
    /\ call.fn = "chunks"
    /\ call.pc = "text"
    /\ Len(call.text[Len(call.text)]) < MaxSentences
    /\ call' = [call EXCEPT !.text[Len(call.text)] = Append(@, chars)]
    /\ UNCHANGED server

\* the chunker takes the next paragraph of text.split("\n\n")
CH_Paragraph ==
    /\ call.fn = "chunks"
    /\ call.paragraph < Len(call.text)
    /\ call' = [call EXCEPT !.pc = "loop", !.paragraph = @ + 1,
                            !.chunks = @ \o ParagraphChunks(call.text[call.paragraph + 1])]
    /\ UNCHANGED server

\* the chunker returns; app.py filters the list first
CH_Return ==
    /\ call.fn = "chunks"
    /\ call.pc \in {"text", "loop"}
    /\ call.paragraph = Len(call.text)
    /\ call' = [call EXCEPT !.pc = "done",
                            !.chunks = IF impl = "app"
                                       THEN SelectSeq(@, LAMBDA c : LongEnough(c.chars))
                                       ELSE @]
    /\ UNCHANGED server

SentenceSizes == {40, 90, 470}

ChunkNext ==
    \/ TX_Paragraph
    \/ \E chars \in SentenceSizes : TX_Sentence(chars)
    \/ CH_Paragraph
    \/ CH_Return

ChunkSpec == InitOf({"app", "new_app"}) /\ call = NoCall /\ [][ChunkNext]_vars

(***************************************************************************)
(* The split of one paragraph (app.py and new_app.py): the text is one     *)
(* paragraph, with sentences at the size bound and above it.               *)
(***************************************************************************)
LongSentenceSizes == {40, 90, 470, 500, 600, 700}

SplitNext ==
    \/ call.fn = "none" /\ TX_Paragraph
    \/ \E chars \in LongSentenceSizes : TX_Sentence(chars)
    \/ CH_Paragraph
    \/ CH_Return

SplitSpec == InitOf({"app", "new_app"}) /\ call = NoCall /\ [][SplitNext]_vars

(***************************************************************************)
(* Building a document from its text (all three programs; web_app.py calls *)
(* create_document_embeddings of app.py).                                  *)
(***************************************************************************)
RECURSIVE AllChunks(_)
AllChunks(text) ==
    IF text = <<>> THEN <<>> ELSE ParagraphChunks(Head(text)) \o AllChunks(Tail(text))

\* the chunk list that create_document_embeddings works on
create_optimized_chunks(text) ==
    IF impl = "new_app" THEN AllChunks(text)
    ELSE SelectSeq(AllChunks(text), LAMBDA c : LongEnough(c.chars))

\* a create_document_embeddings that indexes an empty chunk list
create_document_embeddings_Guarded(text) == "ok"

\* create_document_embeddings with a model that loads: without a chunk,
\* app.py divides by len(chunks) and new_app.py reads all_embeddings[0]
create_document_embeddings(text) ==
    IF create_optimized_chunks(text) = <<>> THEN "fails" ELSE "ok"

\* the texts that a document URL may hold
Texts == {<< <<>> >>, << <<40>> >>, << <<40>>, <<>>, <<40, 30>> >>,
          << <<90, 90>> >>, << <<470, 470>>, <<40>> >>}

NotBuilt == [fn |-> "process_document", built |-> FALSE, text |-> <<>>,
             chunks |-> <<>>, empty |-> {}]

\* the text downloaded for the request of slot r, and the documents built
\* from a text without chunks so far
Built(text, doc) ==
    [call EXCEPT !.built = TRUE, !.text = text,
                 !.chunks = create_optimized_chunks(text),
                 !.empty = IF create_optimized_chunks(text) = <<>>
                           THEN @ \cup {doc} ELSE @]

\* a request arrives
Arrives(A) ==
    /\ nreq < MaxReqs
    /\ nreq' = nreq + 1
    /\ A
    /\ call' = [call EXCEPT !.built = FALSE, !.text = <<>>, !.chunks = <<>>]

\* new_app.py: process_document in its thread, on the text of the URL
NA_ProcessDocument(r, text) ==
    /\ impl = "new_app"
    /\ req[r].pc = "building"
    /\ IF create_document_embeddings(text) = "ok" THEN NA_BuildOk(r) ELSE NA_BuildFail(r)
    /\ call' = Built(text, req[r].doc)
    /\ UNCHANGED nreq

\* app.py: the whole handler, on the text of the URL when the cache has no
\* entry for it
App_ProcessDocument(r, u, text, nq) ==
    /\ nreq < MaxReqs
    /\ nreq' = nreq + 1
    /\ App_hackrx_run(r, "c1", "good", Url(u), nq, create_document_embeddings(text),
                      [i \in 1..nq |-> Good])
    /\ call' = IF get_document_cache_key(u) \in Keys(document_cache)
               THEN [call EXCEPT !.built = FALSE, !.text = <<>>, !.chunks = <<>>]
               ELSE Built(text, [url |-> u, build |-> builds[u] + 1])

\* web_app.py: the handler after the rate check, on the text of the URL
W_ProcessDocument(r, u, text, nq) ==
    /\ W_Proceed(r, "good", Url(u), nq, create_document_embeddings(text),
                 [i \in 1..nq |-> Good])
    /\ call' = Built(text, NoDoc)
    /\ UNCHANGED nreq

EmptyNext ==
    \/ \E u \in {1, 2} : Arrives(NA_Receive(1, "c1", "good", Url(u), 2))
    \/ Step(NA_CacheGet(1))
    \/ \E text \in Texts : NA_ProcessDocument(1, text)
    \/ \E t \in inserts : Step(NA_CacheDocument(t))
    \/ \E i \in 1..2 : Step(NA_Acquire(1, i))
    \/ \E i \in 1..2 : Step(NA_Run(1, i))
    \/ \E i \in 1..2 : Step(NA_Finish(1, i, "ok", "object"))
    \/ Step(NA_Respond(1))
    \/ \E u \in {1, 2}, text \in Texts : App_ProcessDocument(1, u, text, 2)
    \/ Arrives(W_Start(1, "c1"))
    \/ Step(W_Assign(1))
    \/ Step(W_Check(1))
    \/ \E u \in {1, 2}, text \in Texts : W_ProcessDocument(1, u, text, 2)

EmptySpec == InitOf(Impls) /\ call = NotBuilt /\ [][EmptyNext]_vars

(***************************************************************************)
(* The embedding model (new_app.py): get_sentence_transformer is called by *)
(* the startup preload and by every document build, each in a thread of    *)
(* its own.  The function is wrapped in lru_cache, which keeps the value   *)
(* of a call that returned and nothing of a call that raised.              *)
(***************************************************************************)
Callers == {"startup", "build1", "build2"}

\* what the two constructors of one load can do
LoadOutcomes == {"first", "fallback", "raises"}

ModelIdle == [fn |-> "get_sentence_transformer",
              pc |-> [t \in Callers |-> "idle"],
              model_lock |-> "free",
              sentence_transformer |-> "None",
              lru_cache |-> "None",
              loads |-> 0, raised |-> 0, calls |-> 0, reloaded |-> FALSE]

\* a thread calls get_sentence_transformer: lru_cache answers, or the body
\* runs up to "with _model_lock"
GST_Call(t) ==
    /\ impl = "new_app"
    /\ call.fn = "get_sentence_transformer"
    /\ call.pc[t] = "idle"
    /\ call.calls < MaxCalls
    /\ t = "startup" => call.calls = 0
    /\ call' = [call EXCEPT !.calls = @ + 1,
                            !.pc[t] = IF call.lru_cache = "None" THEN "lock" ELSE "idle"]
    /\ UNCHANGED server

\* the thread takes _model_lock
GST_Acquire(t) ==
    /\ call.fn = "get_sentence_transformer"
    /\ call.pc[t] = "lock"
    /\ call.model_lock = "free"
    /\ call' = [call EXCEPT !.model_lock = t, !.pc[t] = "test"]
    /\ UNCHANGED server

\* under the lock: the test for None, and the load with its fallback
GST_Load(t, outcome) ==
    /\ call.fn = "get_sentence_transformer"
    /\ call.pc[t] = "test"
    /\ call' = IF call.sentence_transformer # "None"
               THEN [call EXCEPT !.pc[t] = "return"]
               ELSE [call EXCEPT
                       !.loads = @ + 1,
                       !.reloaded = @ \/ call.raised > 0,
                       !.raised = IF outcome = "raises" THEN @ + 1 ELSE @,
                       !.sentence_transformer =
                           IF outcome = "raises" THEN "None" ELSE "model",
                       !.pc[t] = IF outcome = "raises" THEN "raise" ELSE "return"]
    /\ UNCHANGED server

\* the lock is released; the value goes through lru_cache to the caller, or
\* the exception does
GST_Return(t) ==
    /\ call.fn = "get_sentence_transformer"
    /\ call.pc[t] \in {"return", "raise"}
    /\ call' = [call EXCEPT !.model_lock = "free", !.pc[t] = "idle",
                            !.lru_cache = IF call.pc[t] = "return"
                                          THEN call.sentence_transformer ELSE @]
    /\ UNCHANGED server

ModelNext ==
    \/ \E t \in Callers : GST_Call(t)
    \/ \E t \in Callers : GST_Acquire(t)
    \/ \E t \in Callers, outcome \in LoadOutcomes : GST_Load(t, outcome)
    \/ \E t \in Callers : GST_Return(t)

ModelSpec == InitOf({"new_app"}) /\ call = ModelIdle /\ [][ModelNext]_vars

(***************************************************************************)
(* The text of the LLM (new_app.py).  A text is a sequence of pieces: a    *)
(* JSON value of some shape, a word that is no JSON, white space, or a     *)
(* Markdown fence.                                                         *)
(***************************************************************************)
JsonValues == {"obj_justification", "obj_other", "array", "string", "number"}

Fences == {"fence_json", "fence"}

Pieces == JsonValues \cup Fences \cup {"word", " "}

\* str.find(sub, start) over pieces; 0 stands for -1; the three backquotes are
\* also found at the start of a "fence_json"
find(text, subs, start) ==
    IF \E i \in start..Len(text) : text[i] \in subs
    THEN CHOOSE i \in start..Len(text) :
            text[i] \in subs /\ \A j \in start..(i - 1) : text[j] \notin subs
    ELSE 0

\* generate_response, the clean-up of Markdown fences: the text between the
\* first fence and the next one, if there is such a text
strip_fences(response_text) ==
    LET opening == IF find(response_text, {"fence_json"}, 1) # 0 THEN {"fence_json"} ELSE Fences
        start == find(response_text, opening, 1) + 1
        end == find(response_text, Fences, start)
    IN IF find(response_text, Fences, 1) # 0 /\ end > start
       THEN strip(SubSeq(response_text, start, end - 1))
       ELSE response_text

\* json.loads accepts one JSON value with white space around it
JSONDecodeError(text) == ~(Len(strip(text)) = 1 /\ strip(text)[1] \in JsonValues)

json_loads(text) == [shape |-> strip(text)[1], text |-> <<>>]

\* generate_response, from the LLM's text to the JSON it returns: the parsed
\* value, or an object whose justification is the text
parse_response(response_text) ==
    LET cleaned == strip_fences(response_text)
    IN IF ~JSONDecodeError(cleaned) THEN json_loads(cleaned)
       ELSE [shape |-> IF cleaned = <<>> THEN "obj_other" ELSE "obj_justification",
             text |-> cleaned]

\* process_question, from the JSON of generate_response to the answer:
\* result.get raises AttributeError on a value that is no object, and the
\* outer except turns it into an error string
extract_answer(result) ==
    IF result.shape \in {"obj_justification", "obj_other"}
    THEN [kind |-> "content", of |-> result]
    ELSE [kind |-> "error", of |-> result]

PQ_Call ==
    /\ impl = "new_app"
    /\ call.fn = "none"
    /\ call' = [fn |-> "process_question", pc |-> "llm", response_text |-> <<>>,
                response |-> <<>>, answer |-> <<>>]
    /\ UNCHANGED server

\* the LLM writes its text, piece by piece
LLM_Write(piece) ==
    /\ call.fn = "process_question"
    /\ call.pc = "llm"
    /\ Len(call.response_text) < MaxText
    /\ call' = [call EXCEPT !.response_text = Append(@, piece)]
    /\ UNCHANGED server

GR_Return ==
    /\ call.fn = "process_question"
    /\ call.pc = "llm"
    /\ call' = [call EXCEPT !.pc = "response",
                            !.response = <<parse_response(call.response_text)>>]
    /\ UNCHANGED server

PQ_Return ==
    /\ call.fn = "process_question"
    /\ call.pc = "response"
    /\ call' = [call EXCEPT !.pc = "done",
                            !.answer = <<extract_answer(call.response[1])>>]
    /\ UNCHANGED server

ParseNext ==
    \/ PQ_Call
    \/ \E piece \in Pieces : LLM_Write(piece)
    \/ GR_Return
    \/ PQ_Return

ParseSpec == InitOf({"new_app"}) /\ call = NoCall /\ [][ParseNext]_vars

(***************************************************************************)
(* Properties.                                                             *)
(***************************************************************************)
KeyOf(u) == get_document_cache_key(u)

TimestampOf(ts, k) == DictGet(ts, k)

\* C1: in app.py and new_app.py, once a request for a URL has returned 200,
\* every later request for that URL, with no clear, eviction or expiry of its
\* entry in between, is served from the cache and builds nothing again.
C1_HitAfter200 ==
    \A r \in Slots :
        (/\ impl \in {"app", "new_app"}
         /\ req[r].pc \in {"building", "answering", "done"}
         /\ req[r].servedBefore)
        => req[r].hit

C2_InLLM(r) ==
    Cardinality({i \in 1..Len(req[r].task) : req[r].task[i] \in {"queued", "running"}})

\* C2: in new_app.py at most 4 questions of one request are inside the LLM
\* call (between entering and leaving the semaphore) at any moment.
C2_AtMostFour == \A r \in Slots : C2_InLLM(r) <= 4

\* of more than four questions, four are inside the LLM call, one has left it
\* and none is waiting: the last one entered after another had finished
C2_FifthAfterRelease ==
    \E r \in Slots :
        /\ impl = "new_app"
        /\ req[r].nq > 4
        /\ C2_InLLM(r) = 4
        /\ \A i \in 1..req[r].nq : req[r].task[i] # "waiting"

\* C3: every 200 response carries one answer per question, and the answer at
\* position i is the one produced for question i, whatever order the tasks
\* complete in.
C3_AnswersInOrder ==
    \A r \in Slots :
        req[r].status = 200 =>
            /\ Len(req[r].answers) = req[r].nq
            /\ \A i \in 1..req[r].nq : req[r].answers[i].q = i

\* a 200 response of new_app.py whose tasks completed out of question order
C3_CompletedOutOfOrder ==
    \E r \in Slots :
        /\ impl = "new_app"
        /\ req[r].status = 200
        /\ req[r].nq = MaxQuestions
        /\ req[r].reordered

\* C4: in new_app.py, once the document is resolved, an exception raised while
\* answering a question becomes an error string at that question's position
\* (no exception reaches gather), the other questions are answered, and the
\* request ends with 200 and a full-length answer array.
C4_ErrorIsolated ==
    \A r \in Slots :
        (impl = "new_app" /\ req[r].task # <<>>) =>
            /\ \A i \in 1..req[r].nq :
                  /\ req[r].task[i] = "done" <=> req[r].answers[i].kind \in {"content", "error"}
                  /\ req[r].task[i] # "done" <=> req[r].answers[i].kind = "none"
                  /\ i \in req[r].failed => req[r].answers[i].kind = "error"
            /\ req[r].pc = "done" =>
                  /\ req[r].status = 200
                  /\ Len(req[r].answers) = req[r].nq

\* a 200 response in which one question failed and another was answered
C4_OneFailedOthersAnswered ==
    \E r \in Slots :
        /\ impl = "new_app"
        /\ req[r].status = 200
        /\ req[r].nq = MaxQuestions
        /\ Cardinality(req[r].failed) = 1
        /\ \E i \in 1..req[r].nq : req[r].answers[i].kind = "content"

C5_Threshold == IF impl = "new_app" THEN 20 ELSE 10

C5_InWindowFrom(c, t) ==
    Cardinality({j \in 1..Len(admitted[c]) : admitted[c][j] >= t /\ admitted[c][j] < t + 60})

\* C5: in app.py and new_app.py a request is admitted if and only if fewer
\* than the threshold of the same client's admitted requests lie inside the
\* trailing window; no client has more than the threshold admitted within any
\* window; other clients' requests play no part in the decision.
C5_AdmitIffBelowThreshold ==
    /\ \A r \in Slots :
          req[r].pc # "idle" => (req[r].status = 429 <=> req[r].seen >= C5_Threshold)
    /\ \A c \in Clients : \A i \in 1..Len(admitted[c]) :
          C5_InWindowFrom(c, admitted[c][i]) <= C5_Threshold

\* the threshold-th request of the window was admitted and the next one is
\* rejected, while another client was being served
C5_NextOneRejected ==
    /\ req[1].ip = "c1"
    /\ req[1].status = 429
    /\ req[1].seen = C5_Threshold
    /\ Len(admitted["c1"]) = C5_Threshold
    /\ admitted["c0"] # <<>>

\* C6: a client that has been rejected is admitted again as soon as the window
\* has elapsed since its oldest recorded admitted request.
C6_AdmittedWhenDue == \A r \in Slots : req[r].due => req[r].status # 429

\* C7: the document cache never holds more than MAX_CACHE_SIZE entries (10 in
\* new_app.py, 5 in app.py), whatever inserts, lookups, clean-ups and clears
\* have run.
C7_CacheBounded ==
    /\ Len(document_cache) <= (IF impl = "app" THEN 5 ELSE 10)
    /\ Len(cache_timestamps) <= 10

\* an insert found the cache full and made room for its entry
C7_FullAfterEviction ==
    /\ impl = "new_app"
    /\ Len(document_cache) = MaxCache
    /\ inserts = {}
    /\ KeyOf(1) \notin Keys(document_cache)
    /\ KeyOf(MaxCache + 1) \in Keys(document_cache)
    /\ builds[1] = 1

C8_Added == Keys(document_cache') \ Keys(document_cache)

C8_Removed == Keys(document_cache) \ Keys(document_cache')

C8_IsEarliest(k) ==
    IF impl = "app" THEN document_cache[1].key = k
    ELSE \A j \in Keys(cache_timestamps) :
            TimestampOf(cache_timestamps, k) <= TimestampOf(cache_timestamps, j)

\* C8: a step that puts a new key into a cache at capacity removes exactly
\* one entry, the earliest inserted one (smallest timestamp in new_app.py, first
\* key in app.py), and leaves every other entry as it was; a step that puts a
\* new key into a cache below capacity removes nothing.
C8_EvictsEarliest ==
    [][C8_Added # {} =>
          /\ IF Len(document_cache) >= (IF impl = "app" THEN 5 ELSE 10)
             THEN \E k \in Keys(document_cache) :
                     C8_Removed = {k} /\ C8_IsEarliest(k)
             ELSE C8_Removed = {}
          /\ \A k \in Keys(document_cache) \ C8_Removed :
                /\ DictGet(document_cache', k) = DictGet(document_cache, k)
                /\ impl = "new_app" =>
                      TimestampOf(cache_timestamps', k) = TimestampOf(cache_timestamps, k)
      ]_vars

\* the cache was full, the entry inserted last took the place of the first one
C8_LastTookFirst ==
    /\ Len(document_cache) = MaxCache
    /\ KeyOf(1) \notin Keys(document_cache)
    /\ document_cache[Len(document_cache)].key = KeyOf(MaxCache)
    /\ KeyOf(MaxCache + 1) \in Keys(document_cache)

C9_Cleanup(r) == req[r].pc # "lookup" /\ req'[r].pc = "lookup"

C9_Get(r) == req[r].pc = "lookup" /\ req'[r].pc # "lookup"

\* C9: in new_app.py a lookup never returns an entry older than CACHE_TTL: its
\* clean-up removes every such entry from both maps and keeps the others, the
\* lookup then returns the entry of the key if there is one, which is no older
\* than CACHE_TTL, and otherwise misses, and the request rebuilds.
C9_TtlLookup ==
    [][\A r \in Slots :
          /\ C9_Cleanup(r) =>
                \A k \in Keys(cache_timestamps) :
                    IF now - TimestampOf(cache_timestamps, k) > 3600
                    THEN /\ k \notin Keys(document_cache')
                         /\ k \notin Keys(cache_timestamps')
                    ELSE /\ k \in Keys(document_cache')
                         /\ DictGet(document_cache', k) = DictGet(document_cache, k)
                         /\ TimestampOf(cache_timestamps', k)
                               = TimestampOf(cache_timestamps, k)
          /\ C9_Get(r) =>
                LET k == KeyOf(req[r].url)
                IN IF k \in Keys(document_cache)
                   THEN /\ req'[r].hit
                        /\ req'[r].doc = DictGet(document_cache, k)
                        /\ req[r].lookup_time - TimestampOf(cache_timestamps, k) <= 3600
                        /\ builds' = builds
                   ELSE /\ ~req'[r].hit
                        /\ req'[r].pc = "building"
                        /\ builds'[req[r].url] = builds[req[r].url] + 1
      ]_vars

\* a lookup found its entry expired, removed it, and the request rebuilds
C9_ExpiredRebuilt ==
    \E r \in Slots :
        /\ req[r].pc = "building"
        /\ builds[req[r].url] = 2
        /\ \E g \in req[r].removed : g.key = KeyOf(req[r].url)

\* the request ended with 500 without a document
C10_ResolutionFailed(r) ==
    /\ impl \in {"app", "new_app"}
    /\ req[r].status = 500
    /\ req[r].doc = NoDoc

\* the step in which the request learns that its document cannot be built
C10_Fails(r) == req[r].status # 500 /\ req'[r].status = 500 /\ req'[r].doc = NoDoc

\* C10 as stated: a request whose document resolution fails ends with 500 and
\* an error body, sends no question to the LLM and leaves the document cache
\* exactly as it was before the request.
C10_CacheUntouched ==
    \A r \in Slots :
        C10_ResolutionFailed(r) =>
            /\ req[r].body = "error"
            /\ req[r].task = <<>>
            /\ req[r].answers = <<>>
            /\ ~req[r].spawned
            /\ req[r].removed = {}

\* C10, amended: a request whose document resolution fails ends with 500 and an
\* error body, sends no question to the LLM and stores no entry: its failing
\* step changes neither the cache nor the pending inserts; the only change the
\* request makes to the cache is the removal, by its lookup in new_app.py, of
\* entries older than CACHE_TTL.
C10_NothingStored ==
    /\ [](\A r \in Slots :
             C10_ResolutionFailed(r) =>
                 /\ req[r].body = "error"
                 /\ req[r].task = <<>>
                 /\ req[r].answers = <<>>
                 /\ ~req[r].spawned
                 /\ impl = "app" => req[r].removed = {}
                 /\ \A g \in req[r].removed : req[r].lookup_time - g.ts > 3600)
    /\ [][\A r \in Slots :
             (impl \in {"app", "new_app"} /\ C10_Fails(r)) =>
                 /\ document_cache' = document_cache
                 /\ cache_timestamps' = cache_timestamps
                 /\ inserts' = inserts
         ]_vars

\* a failed resolution whose lookup has removed an expired entry
C10_FailedAfterCleanup ==
    \E r \in Slots : C10_ResolutionFailed(r) /\ req[r].removed # {}

\* C11: whatever text the LLM returns for a question (a JSON object, JSON of
\* another shape, JSON inside Markdown fences, or no JSON at all), the answer
\* of new_app.py for that question is the model's content, never an error
\* string.
C11_NeverErrorString ==
    (call.fn = "process_question" /\ call.pc = "done") => call.answer[1].kind = "content"

\* the request in slot 1 has its response
C12_Answered == call.fn = "hackrx_run" /\ req[1].pc = "done"

C12_OverLimit == req[1].seen >= C5_Threshold

C12_TokenValid ==
    /\ call.required_token = <<"secret">>
    /\ call.authorization = <<"Bearer ", "secret">>

C12_Untouched ==
    /\ req[1].task = <<>>
    /\ req[1].answers = <<>>
    /\ req[1].doc = NoDoc
    /\ ~req[1].hit
    /\ ~req[1].spawned
    /\ req[1].removed = {}

\* C12: the checks of /hackrx/run come in the order rate limit, bearer token,
\* body: a request over the rate limit gets 429 whatever its token, a request
\* under the limit with an invalid token gets 401 whatever its body, and a
\* request answered 429, 401 or 400 has caused no download, no cache lookup or
\* insert and no LLM call.
C12_ChecksInOrder ==
    C12_Answered =>
        /\ C12_OverLimit => req[1].status = 429
        /\ (~C12_OverLimit /\ ~C12_TokenValid) => req[1].status = 401
        /\ req[1].status \in {429, 401, 400} => C12_Untouched

C13_BodyInvalid ==
    \/ call.body.kind # "object"
    \/ call.body.documents = <<>>
    \/ call.body.documents[1] # "http"
    \/ call.body.questions = <<>>
    \/ call.body.questions[1] # "list"
    \/ call.body.questions[2] = 0

\* C13: in all three programs an admitted and authenticated request whose
\* questions value is absent, an empty list or no list, whose documents value
\* is absent or no http(s) URL string, or whose body is no JSON object, is
\* answered 400, never 500, and is not processed.
C13_InvalidBodyIs400 ==
    (C12_Answered /\ ~C12_OverLimit /\ C12_TokenValid /\ C13_BodyInvalid) =>
        /\ req[1].status = 400
        /\ C12_Untouched

\* the scheme, then the secret with nothing but white space around it
C14_BearerSecret(authorization) ==
    /\ Len(authorization) >= 2
    /\ authorization[1] = "Bearer "
    /\ \E i \in 2..Len(authorization) :
          /\ authorization[i] = "secret"
          /\ \A j \in 2..Len(authorization) : j # i => authorization[j] = " "

\* C14: a header passes verify_bearer_token only if the server has a secret
\* and the header is the scheme 'Bearer ' followed by that secret, white
\* space around the secret aside, and nothing else.
C14_OnlyBearerSecret ==
    (call.fn = "verify_bearer_token" /\ call.pc = "done" /\ call.ok) =>
        /\ call.required_token = <<"secret">>
        /\ C14_BearerSecret(call.authorization)

\* C15: /stats and /clear-cache of new_app.py answer a request without the
\* valid bearer token with 401, disclose no cache keys and no cache size to
\* it, and leave the cache as it is.
C15_CacheEndpointsGated ==
    (call.fn \in {"get_stats", "clear_cache"} /\ call.auth # "good") =>
        /\ call.response.status = 401
        /\ call.response.cache_size = <<>>
        /\ call.response.cache_entries = <<>>
        /\ call.response.cleared = <<>>
        /\ ~call.changed

\* C16: retrieve_relevant_chunks called with k greater than the number of
\* chunks of the index returns exactly as many chunks as the index holds,
\* each of them at most once, and raises no error.
C16_ReturnsWhatIndexHolds ==
    (/\ call.fn = "generate_response"
     /\ call.pc \in {"send", "raised"}
     /\ Len(call.indices) > Len(call.chunks))
    => /\ call.pc # "raised"
       /\ Len(call.relevant_chunks) = Len(call.chunks)
       /\ \A i, j \in 1..Len(call.relevant_chunks) :
             i # j => call.relevant_chunks[i].id # call.relevant_chunks[j].id

\* C17: in generate_response, when the estimate of the full prompt is above
\* 8000, the prompt sent is the short template with the first retrieved chunk
\* cut to 300 characters, built once and strictly shorter than the full
\* prompt; when the estimate is at most 8000, the full prompt is sent
\* unchanged.
C17_FallbackOnce ==
    (call.fn = "generate_response" /\ call.pc = "send") =>
        IF call.estimated_tokens > 8000
        THEN /\ call.prompt =
                   <<[template |-> "short", query |-> call.query,
                      chunks |-> <<[id |-> call.relevant_chunks[1].id,
                                    chars |-> IF call.relevant_chunks[1].chars > 300
                                              THEN 300
                                              ELSE call.relevant_chunks[1].chars]>>]>>
             /\ PromptChars(call.prompt[1]) < PromptChars(call.full[1])
             /\ call.rebuilt = 1
        ELSE /\ call.prompt = call.full
             /\ call.full = <<[template |-> "full", query |-> call.query,
                                chunks |-> call.relevant_chunks]>>
             /\ call.rebuilt = 0

\* a prompt above the ceiling was replaced, and its first chunk cut
C17_Replaced ==
    /\ call.fn = "generate_response"
    /\ call.pc = "send"
    /\ call.estimated_tokens > 8000
    /\ call.rebuilt = 1
    /\ call.relevant_chunks[1].chars > 300

\* C18: the chunker returns no chunk only for a text that is empty or white
\* space: every text with a paragraph that is not white space yields a chunk.
C18_ChunksUnlessBlank ==
    (call.fn = "chunks" /\ call.pc = "done" /\ call.chunks = <<>>) =>
        \A i \in 1..Len(call.text) : call.text[i] = <<>>

\* C19: every chunk the chunker returns is at least as long as the floor, 80
\* characters in new_app.py and 100 in app.py, whether it is a whole
\* paragraph, a flushed sentence buffer or the last buffer of a paragraph.
C19_NoChunkBelowFloor ==
    (call.fn = "chunks" /\ call.pc = "done") =>
        \A i \in 1..Len(call.chunks) :
            call.chunks[i].chars >= (IF impl = "new_app" THEN 80 ELSE 100)

\* a whole paragraph, a flushed buffer and a last buffer were returned
C19_AllOrigins ==
    /\ call.fn = "chunks"
    /\ call.pc = "done"
    /\ {call.chunks[i].from : i \in 1..Len(call.chunks)} = {"paragraph", "flush", "last"}

\* C20: text normalisation is idempotent: cleaning a text that was cleaned
\* changes nothing, clean(clean(t)) = clean(t) for every text t.
C20_CleanIdempotent ==
    (call.fn = "clean_text_fast" /\ call.pc = "again") => call.again = call.cleaned

\* the chunks of a call that come from the split of a long paragraph
C21_Packed == {i \in 1..Len(call.chunks) : call.chunks[i].from # "paragraph"}

\* the sentences of the chunks, one after the other
RECURSIVE C21_Sentences(_)
C21_Sentences(chunks) ==
    IF chunks = <<>> THEN <<>> ELSE Head(chunks).sentences \o C21_Sentences(Tail(chunks))

\* s is t without some of its elements, the others in the order of t
RECURSIVE C21_InOrder(_, _)
C21_InOrder(s, t) ==
    \/ s = <<>>
    \/ /\ t # <<>>
       /\ IF Head(s) = Head(t) /\ C21_InOrder(Tail(s), Tail(t)) THEN TRUE
          ELSE C21_InOrder(s, Tail(t))

\* C21: the sentences of a long paragraph are packed in their order, and a
\* chunk of the split is either no longer than the bound (500 characters in
\* new_app.py, 600 in app.py) or is one sentence that alone exceeds the
\* bound, whole and unmodified.
C21_PackedWithinBound ==
    (call.fn = "chunks" /\ call.pc = "done" /\ Len(call.text) = 1) =>
        /\ C21_InOrder(C21_Sentences(call.chunks), call.text[1])
        /\ \A i \in C21_Packed :
              \/ call.chunks[i].chars <= (IF impl = "new_app" THEN 500 ELSE 600)
              \/ /\ Len(call.chunks[i].sentences) = 1
                 /\ call.chunks[i].sentences[1] > (IF impl = "new_app" THEN 500 ELSE 600)
                 /\ call.chunks[i].chars = call.chunks[i].sentences[1]

\* the documents that the cache holds or is about to be given
C22_Stored ==
    {document_cache[i].val : i \in 1..Len(document_cache)} \cup {t.doc : t \in inserts}

\* C22: a document whose text yields no chunk is never used to answer: its
\* request ends with 500 before a question is dispatched, and the document
\* gets no cache entry.
C22_EmptyDocumentFails ==
    call.fn = "process_document" =>
        /\ (call.built /\ call.chunks = <<>>) =>
              /\ req[1].pc = "done"
              /\ req[1].status = 500
              /\ req[1].task = <<>>
              /\ req[1].answers = <<>>
              /\ req[1].doc = NoDoc
        /\ call.empty \cap C22_Stored = {}

\* a text with words and without a chunk made its request fail while the
\* cache holds another document
C22_ShortTextFailed ==
    /\ call.fn = "process_document"
    /\ call.built
    /\ call.chunks = <<>>
    /\ \E i \in 1..Len(call.text) : call.text[i] # <<>>
    /\ req[1].status = 500
    /\ impl = "new_app"
    /\ document_cache # <<>>

\* C23: the loading routine of the embedding model runs at most once in the
\* life of the process, whatever the calls of get_sentence_transformer and
\* their interleaving, and a load that failed is not attempted again.
C23_LoadsAtMostOnce ==
    call.fn = "get_sentence_transformer" => call.loads <= 1 /\ ~call.reloaded

\* the step is the cache_document call t, for a key that the cache holds
C24_Reinsert(t) ==
    /\ t \in inserts
    /\ inserts' = inserts \ {t}
    /\ get_document_cache_key(t.url) \in Keys(document_cache)

\* the entry of key k is in both dictionaries as it was
C24_Kept(k) ==
    /\ k \in Keys(document_cache') /\ k \in Keys(cache_timestamps')
    /\ DictGet(document_cache', k) = DictGet(document_cache, k)
    /\ DictGet(cache_timestamps', k) = DictGet(cache_timestamps, k)

\* C24: of two concurrent misses on one key that both insert, the entry
\* written last is the key's only entry, and the second insert replaces that
\* entry only: every entry of another key stays as it was, also when the
\* cache is at capacity.
C24_ReinsertOnlyReplaces ==
    [][\A t \in inserts :
          C24_Reinsert(t) =>
              /\ DictGet(document_cache', get_document_cache_key(t.url)) = t.doc
              /\ Cardinality({i \in 1..Len(document_cache') :
                     document_cache'[i].key = get_document_cache_key(t.url)}) = 1
              /\ \A k \in Keys(document_cache) \ {get_document_cache_key(t.url)} :
                     C24_Kept(k)]_vars

\* how many times x is in the list
C25_Count(list, x) == Cardinality({i \in 1..Len(list) : list[i] = x})

\* the client's admitted requests in the window that begins at t
C25_AdmittedFrom(c, t) ==
    Cardinality({j \in 1..Len(admitted[c]) : admitted[c][j] >= t /\ admitted[c][j] < t + 60})

\* C25: prune, check and record are one atomic step per client: with requests
\* of one client handled concurrently, no more than the threshold are admitted
\* within one window, and no recorded timestamp is lost (once no request of the
\* client is inside the check, every admitted timestamp still in the window is
\* in the client's list).
C25_AtomicPerClient ==
    \A c \in Clients :
        /\ \A i \in 1..Len(admitted[c]) :
               C25_AdmittedFrom(c, admitted[c][i]) <= (IF impl = "new_app" THEN 20 ELSE 10)
        /\ Racing(c) = {} =>
               \A i \in 1..Len(admitted[c]) :
                   now - admitted[c][i] < 60 =>
                       C25_Count(requests[c], admitted[c][i])
                           >= C25_Count(admitted[c], admitted[c][i])

\* C26: in the sequential handlers of app.py and web_app.py, once the document
\* is resolved, a failure while answering one question yields an error string
\* at its position and the other questions are answered: the response is 200
\* with one answer per question.
C26_PartialSuccess ==
    \A r \in Slots :
        (impl \in {"app", "web_app"} /\ req[r].pc = "done" /\ req[r].task # <<>>) =>
            /\ req[r].status = 200
            /\ Len(req[r].answers) = req[r].nq
            /\ \A i \in 1..req[r].nq : req[r].answers[i].kind \in {"content", "error"}

\* the questions of request r that a pool worker is executing
C27_Executing(r) == {i \in 1..Len(req[r].task) : req[r].task[i] = "running"}

\* the questions of request r that hold its semaphore
C27_Inside(r) == {i \in 1..Len(req[r].task) : req[r].task[i] \in {"queued", "running"}}

\* C27: over all the requests that new_app.py handles at the same time, at
\* most 4 executions of generate_response run at once: each request's
\* semaphore lets up to 4 of its questions through, the pool of 4 workers caps
\* the total, and the others wait in the pool's queue.
C27_AtMostFourExecuting ==
    /\ Cardinality(C27_Executing(1)) + Cardinality(C27_Executing(2)) <= 4
    /\ \A r \in Slots : Cardinality(C27_Inside(r)) <= 4

\* six questions of two requests hold their semaphores: four are executed,
\* some of either request, and two wait in the queue of the pool
C27_PoolFull ==
    /\ Cardinality(C27_Executing(1)) + Cardinality(C27_Executing(2)) = 4
    /\ C27_Executing(1) # {} /\ C27_Executing(2) # {}
    /\ Cardinality(C27_Inside(1)) = 4
    /\ Cardinality(C27_Inside(2)) = 2

\* the request of slot r is being handled
C28_InFlight(r) == req[r].pc \notin {"idle", "done"}

\* every request that is being handled gets its response
C28_Terminates == \A r \in Slots : C28_InFlight(r) ~> req[r].pc = "done"

\* C28: every /hackrx/run request of new_app.py reaches one terminal state,
\* Rejected (429, 401 or 400), Failed (500) or Completed (200), as long as
\* every external call returns or raises: no interleaving of requests
\* deadlocks.
C28_ReachesTerminalState ==
    /\ [](\A r \in Slots : req[r].pc = "done" => req[r].status \in {429, 401, 400, 500, 200})
    /\ C28_Terminates

\* the requests of client c1 that arrived inside the window that ends now and
\* were not answered 429
C29_NotOver ==
    {i \in 1..Len(call.sent) : call.sent[i].status # 429 /\ now - call.sent[i].time < 60}

\* the timestamps recorded for client c1 inside the window that ends now
C29_Recorded ==
    {i \in 1..Len(requests["c1"]) : now - requests["c1"][i] < 60}

\* C29: a request takes one unit of its client's quota as soon as it passes
\* the rate check, also when it is then answered 401, 400 or 500, and none
\* when it is answered 429: the timestamps recorded for a client count all
\* its requests of the window that were not answered 429.
C29_QuotaCountsAllButOver ==
    call.fn = "is_allowed" => Cardinality(C29_Recorded) = Cardinality(C29_NotOver)

\* C30: in new_app.py, whenever no thread holds _cache_lock, _document_cache
\* and _cache_timestamps have the same keys, whatever the interleaving of
\* cache_document, cleanup_expired_cache and clear_cache; and the eviction of
\* cache_document never finds the timestamps empty with the cache at capacity.
C30_SameKeysOutsideLock ==
    call.fn = "_cache_lock" =>
        /\ call.holder = "none" => Keys(document_cache) = Keys(cache_timestamps)
        /\ ~call.raised

\* an eviction has picked a timestamp and time has passed; the lock is free
\* and the cache is full, without the first document
C30_EvictedAtCapacity ==
    /\ call.fn = "_cache_lock"
    /\ call.picked
    /\ call.holder = "none"
    /\ AtCapacity(document_cache)
    /\ now > 0
    /\ 1 \notin Keys(document_cache)

====
